---- MODULE Spec2Model ----
(***************************************************************************)
(* Hermes: a session-authenticated realtime messaging gateway              *)
(* (src/socket/server.ts, services/communication-service.ts,               *)
(* services/redis-service.ts, services/validation-service.ts) and a        *)
(* Redis-stream task queue (src/queue/worker.ts,                           *)
(* services/queue-services.ts).                                            *)
(*                                                                         *)
(* Four specifications share the variables:                                *)
(*   SpecPolicy   the pure communication policy applied to drawn inputs    *)
(*   Spec         sessions in the coordination store and the upgrade       *)
(*   SpecFrames   frames on admitted connections                           *)
(*   SpecQueue    queue ingress and the consumer loop (SpecQueueFair adds  *)
(*                the fairness of the consumer loop)                       *)
(***************************************************************************)
EXTENDS Integers, Sequences, FiniteSets, TLC

(***************************************************************************)
(* Bounds of the model                                                     *)
(***************************************************************************)
MaxTasks == 2

(***************************************************************************)
(* The world outside the program: users known to the identity service      *)
(* (Janus), their roles and tenants, bearer tokens.                        *)
(***************************************************************************)
Roles == {"staff", "director", "guardian", "student"}

Users == {"u1", "u2", "u3"}

Tenants == {"t1", "t2"}

JanusRole(u) == CASE u = "u1" -> "director" [] u = "u2" -> "student" [] OTHER -> "guardian"

JanusTenant(u) == IF u = "u3" THEN "t2" ELSE "t1"

\* Bearer tokens: each valid token belongs to one user; "tok_bad" verifies for nobody.
Tokens == {"tok_u1", "tok_bad"}

TokenUser(t) == IF t = "tok_u1" THEN "u1" ELSE ""

SessionIds == {"s1", "s2"}

ConnIds == {"c1", "c2"}

RoomIds == {"r1"}

WorkerIds == {"w1", "w2"}

(***************************************************************************)
(* Communication policy (services/communication-service.ts)                *)
(***************************************************************************)
DenyMessage == "Communication between Director and Student is not allowed"

\* A plausible slip: only one direction of the forbidden pair is tested.
checkCommunicationPermissions_OneWay(senderId, senderType, recipientId, recipientType) ==
    IF senderType = "director" /\ recipientType = "student"
    THEN [canMessage |-> FALSE, allowedRecipients |-> {}, errorMessage |-> DenyMessage]
    ELSE [canMessage |-> TRUE, allowedRecipients |-> {recipientId}, errorMessage |-> ""]

checkCommunicationPermissions(senderId, senderType, recipientId, recipientType) ==
    IF \/ (senderType = "director" /\ recipientType = "student")
       \/ (senderType = "student" /\ recipientType = "director")
    THEN [canMessage |-> FALSE, allowedRecipients |-> {}, errorMessage |-> DenyMessage]
    ELSE [canMessage |-> TRUE, allowedRecipients |-> {recipientId}, errorMessage |-> ""]

VARIABLES
    policyCall,      \* SpecPolicy: the drawn arguments and the returned decision
    sessionKey,      \* redis key session:<sid>
    tenantKey,       \* redis key session:tenant:<sid>
    userSessionKey,  \* redis key user:session:<uid>
    wsSessions,      \* database collection websocketSessions, by session id
    issuedSids,      \* session ids the uuid generator has produced
    conns,           \* the websocket connections
    rooms,           \* redis sets room:<rid>
    lastFrame,       \* the frame handled last and what its handler wrote and sent
    httpReply,       \* the gateway's last HTTP request (history, group create) and its response
    serviceCache,    \* redis keys service:<serviceId>:<tenantId>
    validateCalls,   \* calls of validateServiceViaGateway that run side by side
    ingressReply,    \* the response to the last POST /api/v1/queue/task
    stream,          \* redis stream hermes:tasks
    group,           \* consumer group hermes-group: existence, cursor, pending list
    workers,         \* the processQueue loops
    taskLog          \* per stream record: what the consumer did with it

policyVars == <<policyCall>>
sessionVars == <<sessionKey, tenantKey, userSessionKey, wsSessions, issuedSids>>
gatewayVars == <<conns, rooms, lastFrame, httpReply>>
ingressVars == <<serviceCache, validateCalls, ingressReply>>
queueVars == <<serviceCache, validateCalls, ingressReply, stream, group, workers, taskLog>>
vars == <<policyCall, sessionKey, tenantKey, userSessionKey, wsSessions, issuedSids,
          conns, rooms, lastFrame, httpReply,
          serviceCache, validateCalls, ingressReply, stream, group, workers, taskLog>>

(***************************************************************************)
(* Coordination store: session keys (services/redis-service.ts)            *)
(***************************************************************************)
\* A redis key holds nothing, a string (SETEX) or a hash.
NoKey == [kind |-> "none", userId |-> "", userType |-> "", tenantId |-> ""]

StringKey(v) == [kind |-> "string", userId |-> v, userType |-> "", tenantId |-> ""]

HashKey(u, ty, t) == [kind |-> "hash", userId |-> u, userType |-> ty, tenantId |-> t]

\* The null reply of GET: no user id, tenant id or session id equals it.
Nil == "(nil)"

\* A plausible slip: the null reply is not told from the empty string.
redisGet_NullIsEmpty(k) ==
    CASE k.kind = "string" -> [err |-> FALSE, value |-> k.userId]
      [] k.kind = "none" -> [err |-> FALSE, value |-> ""]
      [] OTHER -> [err |-> TRUE, value |-> ""]

\* GET: the string stored; null when the key is absent; a WRONGTYPE error reply
\* for a key that holds a hash.
redisGet(k) ==
    CASE k.kind = "string" -> [err |-> FALSE, value |-> k.userId]
      [] k.kind = "none" -> [err |-> FALSE, value |-> Nil]
      [] OTHER -> [err |-> TRUE, value |-> Nil]

\* HGETALL: the hash's fields; an empty object for an absent key; a WRONGTYPE
\* error reply for a key that holds a string.
hGetAll(k) ==
    CASE k.kind = "hash" -> [err |-> FALSE, userId |-> k.userId, userType |-> k.userType, tenantId |-> k.tenantId]
      [] k.kind = "none" -> [err |-> FALSE, userId |-> "", userType |-> "", tenantId |-> ""]
      [] OTHER -> [err |-> TRUE, userId |-> "", userType |-> "", tenantId |-> ""]

\* storedUserId === userId; threw: the GET's error reply rejects the promise.
validateSession(sessionId, userId) ==
    LET storedUserId == redisGet(sessionKey[sessionId])
    IN  [threw |-> storedUserId.err, valid |-> ~storedUserId.err /\ storedUserId.value = userId]

\* tenantKey and userSessionKey hold "" for an absent key.
getTenantFromSession(sessionId) == IF tenantKey[sessionId] = "" THEN Nil ELSE tenantKey[sessionId]

\* A plausible slip: session:<sid> is written with the tenant id.
storeSession_TenantUnderSession(sessionId, userId, tenantId, writes) ==
    /\ sessionKey' = IF writes >= 1 THEN [sessionKey EXCEPT ![sessionId] = StringKey(tenantId)]
                      ELSE sessionKey
    /\ tenantKey' = IF writes >= 2 THEN [tenantKey EXCEPT ![sessionId] = tenantId] ELSE tenantKey
    /\ userSessionKey' = IF writes >= 3 THEN [userSessionKey EXCEPT ![userId] = sessionId]
                          ELSE userSessionKey

\* The three SETEX writes of storeSession in their order, as the new values of
\* the three keys. writes: how many of them were done; with fewer than three
\* the next one threw (store failure, crash) and storeSession did not complete.
storeSession(sessionId, userId, tenantId, writes) ==
    /\ sessionKey' = IF writes >= 1 THEN [sessionKey EXCEPT ![sessionId] = StringKey(userId)]
                      ELSE sessionKey
    /\ tenantKey' = IF writes >= 2 THEN [tenantKey EXCEPT ![sessionId] = tenantId] ELSE tenantKey
    /\ userSessionKey' = IF writes >= 3 THEN [userSessionKey EXCEPT ![userId] = sessionId]
                          ELSE userSessionKey

\* The three DEL calls of removeSession.
removeSession(sessionId, userId) ==
    /\ sessionKey' = [sessionKey EXCEPT ![sessionId] = NoKey]
    /\ tenantKey' = [tenantKey EXCEPT ![sessionId] = ""]
    /\ userSessionKey' = [userSessionKey EXCEPT ![userId] = ""]

(***************************************************************************)
(* Identity verifier (services/validation-service.ts)                      *)
(***************************************************************************)
\* isValid of validateUserIdentity: Janus answers and verifies the token. The
\* userId argument is not compared with the token's user.
validateUserIdentity(userId, token, janusUp) == janusUp /\ TokenUser(token) # ""

(***************************************************************************)
(* POST /api/v1/session/initiate (socket/server.ts)                        *)
(***************************************************************************)
NoWsSession == [present |-> FALSE, userId |-> "", userType |-> "", tenantId |-> ""]

\* Missing headers: 400. Token not verified (or Janus down): 401.
InitiateRefuses(userId, userType, tenantId, token, janusUp) ==
    \/ userId = "" \/ userType = "" \/ tenantId = "" \/ token = ""
    \/ ~validateUserIdentity(userId, token, janusUp)

\* The session is stored; the database write that follows may fail (500).
InitiateStored(sid, userId, userType, tenantId, token, dbOk) ==
    /\ ~InitiateRefuses(userId, userType, tenantId, token, TRUE)
    /\ sid \notin issuedSids
    /\ sessionKey[sid].kind = "none"
    /\ issuedSids' = issuedSids \cup {sid}
    /\ storeSession(sid, userId, tenantId, 3)
    /\ wsSessions' = IF dbOk
                     THEN [wsSessions EXCEPT ![sid] = [present |-> TRUE, userId |-> userId,
                                                      userType |-> userType, tenantId |-> tenantId]]
                     ELSE wsSessions
    /\ UNCHANGED <<policyVars, gatewayVars, queueVars>>

\* storeSession throws after some of its writes: the route's catch answers 500
\* and the database is not written; what was written stays in the store.
InitiateStoreFailed(sid, userId, userType, tenantId, token, writes) ==
    /\ ~InitiateRefuses(userId, userType, tenantId, token, TRUE)
    /\ sid \notin issuedSids
    /\ sessionKey[sid].kind = "none"
    /\ issuedSids' = issuedSids \cup {sid}
    /\ storeSession(sid, userId, tenantId, writes)
    /\ UNCHANGED <<policyVars, wsSessions, gatewayVars, queueVars>>

\* The requests served: a user id (or none), the role and tenant headers that
\* go with it, a bearer token (or none). "u2" with "tok_u1" presents a token
\* that belongs to another user.
InitiateRequests ==
    { [userId |-> u, userType |-> IF u = "" THEN "" ELSE JanusRole(u),
       tenantId |-> IF u = "" THEN "" ELSE JanusTenant(u), token |-> t] :
      u \in {"u1", "u2", ""}, t \in Tokens \cup {""} }

\* A refused request writes nothing.
InitiateRejected ==
    /\ { r \in InitiateRequests : \E janusUp \in BOOLEAN :
             InitiateRefuses(r.userId, r.userType, r.tenantId, r.token, janusUp) } # {}
    /\ UNCHANGED vars

InitiateSession ==
    \E r \in InitiateRequests, sid \in SessionIds, dbOk \in BOOLEAN :
        InitiateStored(sid, r.userId, r.userType, r.tenantId, r.token, dbOk)

InitiateStoreFailure ==
    \E r \in InitiateRequests, sid \in SessionIds, writes \in 0..2 :
        InitiateStoreFailed(sid, r.userId, r.userType, r.tenantId, r.token, writes)

(***************************************************************************)
(* The store outside the program's writes: TTL expiry, and session hashes  *)
(* written by another party that shares the store.                         *)
(***************************************************************************)
\* The TTL of a session's keys elapses (the three keys of a session are written
\* with one TTL; user:session:<uid> may by then belong to a later session).
ExpireSession ==
    \E sid \in SessionIds :
        /\ sessionKey[sid].kind # "none"
        /\ sessionKey' = [sessionKey EXCEPT ![sid] = NoKey]
        /\ tenantKey' = [tenantKey EXCEPT ![sid] = ""]
        /\ userSessionKey' = [u \in Users |-> IF userSessionKey[u] = sid THEN "" ELSE userSessionKey[u]]
        /\ UNCHANGED <<policyVars, wsSessions, issuedSids, gatewayVars, queueVars>>

\* The three keys of a session one by one. They are written in the order
\* session:<sid>, session:tenant:<sid>, user:session:<uid> with one TTL, so
\* they expire in that order.
ExpireSessionKey ==
    \E sid \in SessionIds :
        /\ sessionKey[sid].kind = "string"
        /\ sessionKey' = [sessionKey EXCEPT ![sid] = NoKey]
        /\ UNCHANGED <<policyVars, tenantKey, userSessionKey, wsSessions, issuedSids,
                       gatewayVars, queueVars>>

ExpireTenantKey ==
    \E sid \in SessionIds :
        /\ tenantKey[sid] # ""
        /\ sessionKey[sid].kind = "none"
        /\ tenantKey' = [tenantKey EXCEPT ![sid] = ""]
        /\ UNCHANGED <<policyVars, sessionKey, userSessionKey, wsSessions, issuedSids,
                       gatewayVars, queueVars>>

ExpireUserKey ==
    \E u \in Users :
        /\ userSessionKey[u] # ""
        /\ sessionKey[userSessionKey[u]].kind = "none"
        /\ tenantKey[userSessionKey[u]] = ""
        /\ userSessionKey' = [userSessionKey EXCEPT ![u] = ""]
        /\ UNCHANGED <<policyVars, sessionKey, tenantKey, wsSessions, issuedSids,
                       gatewayVars, queueVars>>

\* A caller revokes a session it finds in the websocketSessions collection, for
\* the user recorded there.
RemoveSessionCall ==
    \E sid \in SessionIds :
        /\ wsSessions[sid].present
        /\ removeSession(sid, wsSessions[sid].userId)
        /\ UNCHANGED <<policyVars, wsSessions, issuedSids, gatewayVars, queueVars>>

\* The upgrade handler reads session:<sid> as a hash with the fields userId,
\* userType, tenantId; storeSession never writes one. HSET on a key that holds
\* a string fails, so a hash appears only where the key is absent.
ExternalSessionHash ==
    \E sid \in SessionIds, u \in Users :
        /\ sessionKey[sid].kind = "none"
        /\ sid \notin issuedSids
        /\ sessionKey' = [sessionKey EXCEPT ![sid] = HashKey(u, JanusRole(u), JanusTenant(u))]
        /\ UNCHANGED <<policyVars, tenantKey, userSessionKey, wsSessions, issuedSids,
                       gatewayVars, queueVars>>

(***************************************************************************)
(* Websocket upgrade (socket/server.ts)                                    *)
(***************************************************************************)
NullSession == [ok |-> FALSE, userId |-> "", userType |-> "", tenantId |-> ""]

\* A plausible slip: the lookup's result is returned without testing data.userId.
getSessionData_NoUserIdTest(key) ==
    LET data == hGetAll(key) IN
    IF data.err THEN NullSession
    ELSE [ok |-> TRUE, userId |-> data.userId, userType |-> data.userType, tenantId |-> data.tenantId]

getSessionData(key) ==
    LET data == hGetAll(key) IN
    IF data.err THEN NullSession
    ELSE IF data.userId # ""
         THEN [ok |-> TRUE, userId |-> data.userId, userType |-> data.userType, tenantId |-> data.tenantId]
         ELSE NullSession

\* userId, userType, tenantId, sessionId, token: the user data res.upgrade attaches
\* to the socket (sessionId and token are the handshake's own, kept here for a
\* refused handshake as well). hsStore: what the store held under session:<sid>
\* when the handshake was served.
FreshConn == [state |-> "CONNECTING", userId |-> "", userType |-> "", tenantId |-> "",
              sessionId |-> "", token |-> "", hsStore |-> "none"]

UpgradeHandler(c, sessionId, token) ==
    /\ conns[c].state = "CONNECTING"
    /\ LET held == IF sessionId = "" THEN "none" ELSE sessionKey[sessionId].kind
           session == IF sessionId = "" \/ token = "" THEN NullSession
                      ELSE getSessionData(sessionKey[sessionId])
           hs == [conns[c] EXCEPT !.sessionId = sessionId, !.token = token, !.hsStore = held]
       IN  conns' = [conns EXCEPT ![c] =
                IF session.ok
                THEN [hs EXCEPT !.state = "OPEN", !.userId = session.userId,
                                !.userType = session.userType, !.tenantId = session.tenantId]
                ELSE [hs EXCEPT !.state = "CLOSED"]]
    /\ UNCHANGED <<policyVars, sessionVars, rooms, lastFrame, httpReply, queueVars>>

Upgrade ==
    \E c \in ConnIds, sessionId \in SessionIds \cup {""}, token \in Tokens \cup {""} :
        UpgradeHandler(c, sessionId, token)

\* A plausible slip: the close handler revokes the connection's session.
CloseHandler_RemovesSession ==
    \E c \in ConnIds :
        /\ conns[c].state = "OPEN"
        /\ conns' = [conns EXCEPT ![c].state = "CLOSED"]
        /\ removeSession(conns[c].sessionId, conns[c].userId)
        /\ UNCHANGED <<policyVars, wsSessions, issuedSids, rooms, lastFrame, httpReply, queueVars>>

\* close handler: logs only; the store is left as it is.
CloseHandler ==
    \E c \in ConnIds :
        /\ conns[c].state = "OPEN"
        /\ conns' = [conns EXCEPT ![c].state = "CLOSED"]
        /\ UNCHANGED <<policyVars, sessionVars, rooms, lastFrame, httpReply, queueVars>>


(***************************************************************************)
(* Group rooms (services/redis-service.ts)                                 *)
(***************************************************************************)
getUsersInRoom(roomId) == IF roomId \in RoomIds THEN rooms[roomId] ELSE {}

(***************************************************************************)
(* Inbound frames (socket/server.ts, message handler;                      *)
(* services/communication-service.ts, sendDirectMessage)                   *)
(***************************************************************************)
NoId == <<"none", 0>>

\* The ids the generators give: uuidv7 for a message, Firestore for a document.
MsgId == <<"msg", 1>>

DocId == <<"doc", 1>>

\* What callJanusApi gives for GET /api/v1/users/<recipientId>: the user with the
\* role Janus holds; a failure (error response, Janus unreachable, user not
\* found); a user whose role is none of the four; a body without data.user, on
\* which reading the role throws.
JanusResponses(recipientId) ==
    { [threw |-> FALSE, success |-> TRUE, role |-> JanusRole(recipientId)],
      [threw |-> FALSE, success |-> FALSE, role |-> ""],
      [threw |-> FALSE, success |-> TRUE, role |-> "admin"],
      [threw |-> TRUE, success |-> TRUE, role |-> ""] }

LookupSucceeded(response) == ~response.threw /\ response.success /\ response.role \in Roles

determineRecipientType(response) ==
    IF response.threw THEN "guardian"
    ELSE IF response.success /\ response.role \in Roles THEN response.role
    ELSE "guardian"

\* What the stores do to the writes of one direct message.
StoreOutcomes == {"ok", "saveFails", "publishFails"}

DirectMessage(senderId, senderType, recipientId, tenantId, hasMedia) ==
    [id |-> MsgId, senderId |-> senderId, senderType |-> senderType,
     recipientIds |-> {recipientId}, tenantId |-> tenantId,
     messageType |-> IF hasMedia THEN "media" ELSE "direct", status |-> "sent"]

\* A plausible slip: the message is stored before the policy is asked.
sendDirectMessage_PolicyAfterSave(senderId, senderType, recipientId, recipientType, tenantId, hasMedia, stores) ==
    LET permissions == checkCommunicationPermissions(senderId, senderType, recipientId, recipientType)
        message == DirectMessage(senderId, senderType, recipientId, tenantId, hasMedia)
        doc == [docId |-> DocId, msg |-> message]
    IN  IF stores = "saveFails"
        THEN [success |-> FALSE, messageId |-> NoId, error |-> "Failed to send message",
              saved |-> {}, pubs |-> {}, steps |-> <<"save">>]
        ELSE IF ~permissions.canMessage
        THEN [success |-> FALSE, messageId |-> NoId, error |-> permissions.errorMessage,
              saved |-> {doc}, pubs |-> {}, steps |-> <<"save", "policy">>]
        ELSE IF stores = "publishFails"
        THEN [success |-> FALSE, messageId |-> NoId, error |-> "Failed to send message",
              saved |-> {doc}, pubs |-> {}, steps |-> <<"save", "policy", "publish">>]
        ELSE [success |-> TRUE, messageId |-> doc.docId, error |-> "",
              saved |-> {doc}, pubs |-> {[channel |-> recipientId, msg |-> message]},
              steps |-> <<"save", "policy", "publish">>]

\* A plausible slip: the message is published before it is stored.
sendDirectMessage_PublishBeforeSave(senderId, senderType, recipientId, recipientType, tenantId, hasMedia, stores) ==
    LET permissions == checkCommunicationPermissions(senderId, senderType, recipientId, recipientType)
        message == DirectMessage(senderId, senderType, recipientId, tenantId, hasMedia)
        doc == [docId |-> DocId, msg |-> message]
        pub == [channel |-> recipientId, msg |-> message]
    IN  IF ~permissions.canMessage
        THEN [success |-> FALSE, messageId |-> NoId, error |-> permissions.errorMessage,
              saved |-> {}, pubs |-> {}, steps |-> <<"policy">>]
        ELSE IF stores = "publishFails"
        THEN [success |-> FALSE, messageId |-> NoId, error |-> "Failed to send message",
              saved |-> {}, pubs |-> {}, steps |-> <<"policy", "publish">>]
        ELSE IF stores = "saveFails"
        THEN [success |-> FALSE, messageId |-> NoId, error |-> "Failed to send message",
              saved |-> {}, pubs |-> {pub}, steps |-> <<"policy", "publish", "save">>]
        ELSE [success |-> TRUE, messageId |-> doc.docId, error |-> "",
              saved |-> {doc}, pubs |-> {pub}, steps |-> <<"policy", "publish", "save">>]

\* A plausible slip: the publish is fire-and-forget, its failure is not seen.
sendDirectMessage_PublishNotAwaited(senderId, senderType, recipientId, recipientType, tenantId, hasMedia, stores) ==
    LET permissions == checkCommunicationPermissions(senderId, senderType, recipientId, recipientType)
        message == DirectMessage(senderId, senderType, recipientId, tenantId, hasMedia)
        doc == [docId |-> DocId, msg |-> message]
    IN  IF ~permissions.canMessage
        THEN [success |-> FALSE, messageId |-> NoId, error |-> permissions.errorMessage,
              saved |-> {}, pubs |-> {}, steps |-> <<"policy">>]
        ELSE IF stores = "saveFails"
        THEN [success |-> FALSE, messageId |-> NoId, error |-> "Failed to send message",
              saved |-> {}, pubs |-> {}, steps |-> <<"policy", "save">>]
        ELSE [success |-> TRUE, messageId |-> doc.docId, error |-> "",
              saved |-> {doc},
              pubs |-> IF stores = "publishFails" THEN {}
                       ELSE {[channel |-> recipientId, msg |-> message]},
              steps |-> <<"policy", "save", "publish">>]

\* The result of sendDirectMessage with what it did: saved, the documents added
\* to the messages collection; pubs, the publishes on user:<channel>; steps, the
\* calls it made, in their order (a call that threw is the last).
sendDirectMessage(senderId, senderType, recipientId, recipientType, tenantId, hasMedia, stores) ==
    LET permissions == checkCommunicationPermissions(senderId, senderType, recipientId, recipientType)
        message == DirectMessage(senderId, senderType, recipientId, tenantId, hasMedia)
        doc == [docId |-> DocId, msg |-> message]
    IN  IF ~permissions.canMessage
        THEN [success |-> FALSE, messageId |-> NoId, error |-> permissions.errorMessage,
              saved |-> {}, pubs |-> {}, steps |-> <<"policy">>]
        ELSE IF stores = "saveFails"
        THEN [success |-> FALSE, messageId |-> NoId, error |-> "Failed to send message",
              saved |-> {}, pubs |-> {}, steps |-> <<"policy", "save">>]
        ELSE IF stores = "publishFails"
        THEN [success |-> FALSE, messageId |-> NoId, error |-> "Failed to send message",
              saved |-> {doc}, pubs |-> {}, steps |-> <<"policy", "save", "publish">>]
        ELSE [success |-> TRUE, messageId |-> doc.docId, error |-> "",
              saved |-> {doc}, pubs |-> {[channel |-> recipientId, msg |-> message]},
              steps |-> <<"policy", "save", "publish">>]

\* Inbound payloads may carry sender fields of their own.
Payloads == { [senderId |-> u, senderType |-> JanusRole(u), tenantId |-> JanusTenant(u)] :
              u \in {"u2", "u3"} }

\* A plausible slip: the sender is taken from the payload.
senderOf_FromPayload(ws, payload) ==
    [senderId |-> payload.senderId, senderType |-> payload.senderType, tenantId |-> payload.tenantId]

\* const senderId = ws.userId; senderType = ws.userType; tenantId = ws.tenantId
senderOf(ws, payload) ==
    [senderId |-> ws.userId, senderType |-> ws.userType, tenantId |-> ws.tenantId]

\* conn, type, recipientId, hasMedia: the frame. lookup, recipientType: the
\* recipient's role as determined. stores: what the stores did to the handler's
\* calls. saved, pubs: what the handler wrote. steps: the calls the handler made,
\* in their order, the ws.send of the response last. response: what it sent back
\* on the connection.
NoFrame == [conn |-> "", type |-> "none", recipientId |-> "", hasMedia |-> FALSE,
            lookup |-> "none", recipientType |-> "", stores |-> "", saved |-> {}, pubs |-> {},
            steps |-> <<>>,
            response |-> [type |-> "", message |-> "", messageId |-> NoId]]

ErrorFrame(text) == [type |-> "error", message |-> text, messageId |-> NoId]

FrameDone(c, type, recipientId, hasMedia, lookup, recipientType, stores, saved, pubs, steps, response) ==
    /\ lastFrame' = [conn |-> c, type |-> type, recipientId |-> recipientId, hasMedia |-> hasMedia,
                     lookup |-> lookup, recipientType |-> recipientType, stores |-> stores,
                     saved |-> saved, pubs |-> pubs, steps |-> Append(steps, "send"),
                     response |-> response]
    /\ UNCHANGED <<policyVars, sessionVars, conns, rooms, httpReply, queueVars>>

DirectFrame(c, recipientId, payload, hasMedia, janus, stores) ==
    /\ conns[c].state = "OPEN"
    /\ LET sender == senderOf(conns[c], payload)
           recipientType == determineRecipientType(janus)
           result == sendDirectMessage(sender.senderId, sender.senderType, recipientId,
                                       recipientType, sender.tenantId, hasMedia, stores)
       IN  FrameDone(c, "direct", recipientId, hasMedia,
                     IF LookupSucceeded(janus) THEN "ok" ELSE "failed",
                     recipientType, stores, result.saved, result.pubs,
                     <<"lookup">> \o result.steps,
                     IF result.success
                     THEN [type |-> "message_sent", message |-> "Message sent successfully",
                           messageId |-> result.messageId]
                     ELSE ErrorFrame(IF result.error # "" THEN result.error
                                     ELSE "Failed to send message"))

\* A plausible slip: the map publishes for every member, the sender included.
publishTargets_All(roomUsers, senderId) == roomUsers

\* roomUsers.map(userId => userId !== senderId ? publishToRoom(...) : undefined):
\* the members a publish is issued for.
publishTargets(roomUsers, senderId) == roomUsers \ {senderId}

\* roomOk: the SMEMBERS read succeeds. delivered: the members whose publish
\* succeeds (all publishes are issued before any is awaited). stores records
\* which store call failed; steps has one "publish" per publish issued.
GroupFrame(c, roomId, payload, hasMedia, roomOk, delivered) ==
    /\ conns[c].state = "OPEN"
    /\ LET sender == senderOf(conns[c], payload)
           roomUsers == getUsersInRoom(roomId)
           targets == publishTargets(roomUsers, sender.senderId)
           messageObj == [id |-> MsgId, senderId |-> sender.senderId,
                          senderType |-> sender.senderType,
                          recipientIds |-> roomUsers \ {sender.senderId},
                          tenantId |-> sender.tenantId,
                          messageType |-> IF hasMedia THEN "media" ELSE "group",
                          status |-> "sent"]
       IN  IF ~roomOk
           THEN /\ delivered = {}
                /\ FrameDone(c, "group", roomId, hasMedia, "none", "", "membersFails", {}, {},
                             <<"members">>, ErrorFrame("Error processing message"))
           ELSE /\ delivered \subseteq targets
                /\ FrameDone(c, "group", roomId, hasMedia, "none", "",
                             IF delivered = targets THEN "ok" ELSE "publishFails", {},
                             { [channel |-> u, msg |-> messageObj] : u \in delivered },
                             <<"members">> \o [i \in 1..Cardinality(targets) |-> "publish"],
                             IF delivered = targets
                             THEN [type |-> "group_message_sent",
                                   message |-> "Group message sent successfully",
                                   messageId |-> NoId]
                             ELSE ErrorFrame("Error processing message"))

\* A plausible slip: a frame that does not parse ends the connection.
OtherFrame_ClosesOnMalformed(c, malformed) ==
    /\ conns[c].state = "OPEN"
    /\ lastFrame' = [NoFrame EXCEPT !.conn = c,
                                    !.type = IF malformed THEN "malformed" ELSE "other",
                                    !.steps = <<"send">>,
                                    !.response = ErrorFrame(IF malformed
                                                            THEN "Error processing message"
                                                            ELSE "Unknown message type")]
    /\ conns' = IF malformed THEN [conns EXCEPT ![c].state = "CLOSED"] ELSE conns
    /\ UNCHANGED <<policyVars, sessionVars, rooms, httpReply, queueVars>>

\* A frame whose type is neither direct nor group, and a frame JSON.parse rejects.
OtherFrame(c, malformed) ==
    /\ conns[c].state = "OPEN"
    /\ FrameDone(c, IF malformed THEN "malformed" ELSE "other", "", FALSE, "none", "", "", {}, {},
                 <<>>,
                 ErrorFrame(IF malformed THEN "Error processing message"
                            ELSE "Unknown message type"))

\* No frame reached the sender: ws.send threw.
Unanswered == [type |-> "none", message |-> "", messageId |-> NoId]

\* The connection closes while the handler of a frame awaits its store calls:
\* the handler runs on, its ws.send throws on the closed socket, the catch's
\* ws.send throws as well and the rejection leaves the handler.
FrameCutOff(c, type, recipientId, hasMedia, lookup, recipientType, stores, saved, pubs, steps) ==
    /\ lastFrame' = [conn |-> c, type |-> type, recipientId |-> recipientId, hasMedia |-> hasMedia,
                     lookup |-> lookup, recipientType |-> recipientType, stores |-> stores,
                     saved |-> saved, pubs |-> pubs,
                     steps |-> steps \o <<"send threw", "send threw">>,
                     response |-> Unanswered]
    /\ conns' = [conns EXCEPT ![c].state = "CLOSED"]
    /\ UNCHANGED <<policyVars, sessionVars, rooms, httpReply, queueVars>>

DirectFrameCutOff(c, recipientId, payload, hasMedia, janus, stores) ==
    /\ conns[c].state = "OPEN"
    /\ LET sender == senderOf(conns[c], payload)
           recipientType == determineRecipientType(janus)
           result == sendDirectMessage(sender.senderId, sender.senderType, recipientId,
                                       recipientType, sender.tenantId, hasMedia, stores)
       IN  FrameCutOff(c, "direct", recipientId, hasMedia,
                       IF LookupSucceeded(janus) THEN "ok" ELSE "failed",
                       recipientType, stores, result.saved, result.pubs,
                       <<"lookup">> \o result.steps)

GroupFrameCutOff(c, roomId, payload, hasMedia) ==
    /\ conns[c].state = "OPEN"
    /\ LET sender == senderOf(conns[c], payload)
           roomUsers == getUsersInRoom(roomId)
           targets == publishTargets(roomUsers, sender.senderId)
           messageObj == [id |-> MsgId, senderId |-> sender.senderId,
                          senderType |-> sender.senderType,
                          recipientIds |-> roomUsers \ {sender.senderId},
                          tenantId |-> sender.tenantId,
                          messageType |-> IF hasMedia THEN "media" ELSE "group",
                          status |-> "sent"]
       IN  FrameCutOff(c, "group", roomId, hasMedia, "none", "", "ok", {},
                       { [channel |-> u, msg |-> messageObj] : u \in targets },
                       <<"members">> \o [i \in 1..Cardinality(targets) |-> "publish"])

MessageHandlerCutOff ==
    \E c \in ConnIds, payload \in Payloads, hasMedia \in BOOLEAN :
        \/ \E recipientId \in Users, stores \in StoreOutcomes :
             \E janus \in JanusResponses(recipientId) :
               DirectFrameCutOff(c, recipientId, payload, hasMedia, janus, stores)
        \/ \E roomId \in RoomIds : GroupFrameCutOff(c, roomId, payload, hasMedia)

MessageHandler ==
    \E c \in ConnIds :
        \/ \E payload \in Payloads, hasMedia \in BOOLEAN, recipientId \in Users,
              stores \in StoreOutcomes :
             \E janus \in JanusResponses(recipientId) :
               DirectFrame(c, recipientId, payload, hasMedia, janus, stores)
        \/ \E payload \in Payloads, hasMedia \in BOOLEAN, roomId \in RoomIds,
              roomOk \in BOOLEAN :
             \E delivered \in SUBSET getUsersInRoom(roomId) :
               GroupFrame(c, roomId, payload, hasMedia, roomOk, delivered)
        \/ \E malformed \in BOOLEAN : OtherFrame(c, malformed)

(***************************************************************************)
(* HTTP routes of the gateway: group create and message history            *)
(* (socket/server.ts, services/communication-service.ts,                   *)
(* services/database-service.ts)                                           *)
(***************************************************************************)
\* The longest participants list of a group create request.
MaxParticipants == 2

\* Participants as the request body names them: { id, type }.
Participants == { [id |-> u, type |-> JanusRole(u)] : u \in Users }

ParticipantLists ==
    UNION { [1..n -> Participants] : n \in 0..MaxParticipants }

NoError == <<>>

NoHttp == [route |-> "none", status |-> 0, userId |-> "", userType |-> "", tenantId |-> "",
           participants |-> <<>>, steps |-> <<>>, roomId |-> "", error |-> NoError,
           dbOk |-> TRUE, messages |-> {}]

\* The participants, by position, that creatorType may not message.
DeniedAt(creatorId, creatorType, participantIds) ==
    { i \in 1..Len(participantIds) :
        ~checkCommunicationPermissions(creatorId, creatorType, participantIds[i].id,
                                       participantIds[i].type).canMessage }

First(S) == CHOOSE i \in S : \A j \in S : i <= j

Times(n, step) == [i \in 1..n |-> step]

\* A plausible slip: each participant is added right after its own check.
createGroupRoom_CheckAsItAdds(creatorId, creatorType, participantIds, roomId, adds, storeOk) ==
    LET denied == DeniedAt(creatorId, creatorType, participantIds)
        n == Len(participantIds)
        reach == IF denied = {} THEN n ELSE First(denied) - 1
        done == IF adds < reach THEN adds ELSE reach
    IN  IF storeOk /\ denied # {}
        THEN [success |-> FALSE, roomId |-> "",
              error |-> <<"Creator cannot message participant", participantIds[First(denied)].id,
                          checkCommunicationPermissions(creatorId, creatorType,
                              participantIds[First(denied)].id,
                              participantIds[First(denied)].type).errorMessage>>,
              added |-> { participantIds[i].id : i \in 1..reach },
              steps |-> Times(reach, "policy+add") \o <<"policy">>]
        ELSE IF ~storeOk
        THEN [success |-> FALSE, roomId |-> "", error |-> <<"Failed to create group room">>,
              added |-> { participantIds[i].id : i \in 1..done },
              steps |-> Times(done, "policy+add")]
        ELSE [success |-> TRUE, roomId |-> roomId, error |-> NoError,
              added |-> { participantIds[i].id : i \in 1..n },
              steps |-> Times(n, "policy+add")]

\* createGroupRoom: the policy check of (creator, participant) for each
\* participant in turn, returning at the first denial; then addUserToRoom for
\* each participant in turn. storeOk: every store call succeeds; otherwise
\* adds participants have been added (SADD done) when a call of addUserToRoom
\* throws, be it the SADD of the next participant or the EXPIRE or SETEX that
\* follows the SADD of the last one added. added: the members
\* written to room:<roomId>. steps: the calls in their order.
createGroupRoom(creatorId, creatorType, participantIds, roomId, adds, storeOk) ==
    LET denied == DeniedAt(creatorId, creatorType, participantIds)
        n == Len(participantIds)
    IN  IF denied # {}
        THEN [success |-> FALSE, roomId |-> "",
              error |-> <<"Creator cannot message participant", participantIds[First(denied)].id,
                          checkCommunicationPermissions(creatorId, creatorType,
                              participantIds[First(denied)].id,
                              participantIds[First(denied)].type).errorMessage>>,
              added |-> {},
              steps |-> Times(First(denied), "policy")]
        ELSE IF ~storeOk
        THEN [success |-> FALSE, roomId |-> "", error |-> <<"Failed to create group room">>,
              added |-> { participantIds[i].id : i \in 1..adds },
              steps |-> Times(n, "policy") \o Times(IF adds < n THEN adds + 1 ELSE n, "add")]
        ELSE [success |-> TRUE, roomId |-> roomId, error |-> NoError,
              added |-> { participantIds[i].id : i \in 1..n },
              steps |-> Times(n, "policy") \o Times(n, "add")]

HttpDone(route, status, userId, userType, tenantId, participantIds, steps, roomId, error, dbOk, messages) ==
    /\ httpReply' = [route |-> route, status |-> status, userId |-> userId,
                     userType |-> userType, tenantId |-> tenantId, participants |-> participantIds, steps |-> steps,
                     roomId |-> roomId, error |-> error, dbOk |-> dbOk, messages |-> messages]
    /\ UNCHANGED <<policyVars, sessionVars, conns, lastFrame, queueVars>>

\* What a request body can be: the fields the route needs, a body without name
\* or without a participants array, a body that is no JSON.
GroupBodies == {"ok", "missing", "nojson"}

GroupRefused(status, userId, userType, participantIds, text) ==
    /\ HttpDone("group", status, userId, userType, JanusTenant(userId), <<>>, <<>>, "",
                <<text>>, TRUE, {})
    /\ rooms' = rooms

\* POST /api/v1/group/create. headersOk: the four x- headers are there. The
\* room id is a fresh uuid: no set room:<id> exists.
GroupCreateRoute(userId, userType, sessionId, headersOk, body, participantIds, roomId, adds, storeOk) ==
    LET session == validateSession(sessionId, userId)
        result == createGroupRoom(userId, userType, participantIds, roomId, adds, storeOk)
    IN  /\ rooms[roomId] = {}
        /\ adds \in 0..Len(participantIds)
        /\ storeOk => adds = Len(participantIds)
        /\ IF ~headersOk
           THEN GroupRefused(400, userId, userType, participantIds, "Missing required headers")
           ELSE IF session.threw
           THEN GroupRefused(500, userId, userType, participantIds, "Internal server error")
           ELSE IF ~session.valid
           THEN GroupRefused(401, userId, userType, participantIds, "Invalid or expired session")
           ELSE IF body = "nojson"
           THEN GroupRefused(500, userId, userType, participantIds, "Internal server error")
           ELSE IF body = "missing"
           THEN GroupRefused(400, userId, userType, participantIds,
                             "Missing required fields: name and participants array")
           ELSE /\ HttpDone("group", IF result.success THEN 200 ELSE 400, userId, userType,
                            JanusTenant(userId), participantIds, result.steps, result.roomId,
                            result.error, TRUE, {})
                /\ rooms' = [rooms EXCEPT ![roomId] = result.added]

\* The role header is the caller's word; the body is read, and the store asked
\* to add members, only by a request that gets that far.
CreateGroup ==
    \E userId \in {"u1", "u2"}, userType \in {"director", "guardian", "student"},
       sessionId \in SessionIds, headersOk \in BOOLEAN, body \in GroupBodies,
       roomId \in RoomIds :
        \E participantIds \in
              IF headersOk /\ body = "ok" /\ validateSession(sessionId, userId).valid
              THEN ParticipantLists ELSE {<<>>} :
            \E adds \in 0..Len(participantIds) :
                \E storeOk \in IF adds = Len(participantIds) THEN BOOLEAN ELSE {FALSE} :
                    GroupCreateRoute(userId, userType, sessionId, headersOk, body,
                                     participantIds, roomId, adds, storeOk)

\* The set room:<roomId> reaches the end of its lifetime (EXPIRE ..., 3600).
ExpireRoom ==
    \E roomId \in RoomIds :
        /\ rooms[roomId] # {}
        /\ rooms' = [rooms EXCEPT ![roomId] = {}]
        /\ UNCHANGED <<policyVars, sessionVars, conns, lastFrame, httpReply, queueVars>>

\* Documents the messages collection may hold.
StoredDocs ==
    { [docId |-> <<"doc", 1>>, recipientIds |-> {"u1"}, tenantId |-> "t1", messageType |-> "direct"],
      [docId |-> <<"doc", 2>>, recipientIds |-> {"u2"}, tenantId |-> "t1", messageType |-> "media"],
      [docId |-> <<"doc", 3>>, recipientIds |-> {"u1"}, tenantId |-> "t2", messageType |-> "direct"] }

\* getMessagesByQuery: the where clauses on tenantId, recipientIds and
\* messageType; dbOk false: the query throws, and the catch returns [].
getMessagesByQuery(query, collection, dbOk) ==
    IF ~dbOk THEN {}
    ELSE { d \in collection :
             /\ d.tenantId = query.tenantId
             /\ query.recipientId # "" => query.recipientId \in d.recipientIds
             /\ query.messageType # "" => d.messageType = query.messageType }

getUserMessages(userId, userType, tenantId, messageType, collection, dbOk) ==
    getMessagesByQuery([recipientId |-> userId, tenantId |-> tenantId,
                        messageType |-> messageType], collection, dbOk)

\* GET /api/v1/messages/history. collection: the documents in the messages
\* collection. dbOk: the document store answers the query.
HistoryRoute(userId, userType, tenantId, sessionId, headersOk, messageType, collection, dbOk) ==
    LET session == validateSession(sessionId, userId)
        messages == getUserMessages(userId, userType, tenantId, messageType, collection, dbOk)
    IN  /\ rooms' = rooms
        /\ IF ~headersOk
           THEN HttpDone("history", 400, userId, userType, tenantId, <<>>, <<>>, "",
                         <<"Missing required headers">>, TRUE, {})
           ELSE IF session.threw
           THEN HttpDone("history", 500, userId, userType, tenantId, <<>>, <<>>, "",
                         <<"Internal server error">>, TRUE, {})
           ELSE IF ~session.valid
           THEN HttpDone("history", 401, userId, userType, tenantId, <<>>, <<>>, "",
                         <<"Invalid or expired session">>, TRUE, {})
           ELSE HttpDone("history", 200, userId, userType, tenantId, <<>>, <<"query">>, "",
                         NoError, dbOk, messages)

History ==
    \E userId \in {"u1", "u2"}, tenantId \in Tenants, sessionId \in SessionIds,
       headersOk \in BOOLEAN, messageType \in {"", "direct"} :
        \E collection \in
              IF headersOk /\ validateSession(sessionId, userId).valid
              THEN SUBSET StoredDocs ELSE {{}} :
            \E dbOk \in BOOLEAN :
                HistoryRoute(userId, JanusRole(userId), tenantId, sessionId, headersOk,
                             messageType, collection, dbOk)

(***************************************************************************)
(* Service authenticator (services/validation-service.ts)                  *)
(***************************************************************************)
\* The one calling service and tenant of the model: service:svc1:t1.
\* gateway: what POST <janus-gateway>/auth/validate does on a cache miss:
\* "200", another 2xx status, or an error (axios throws).
GatewayOutcomes == {"200", "204", "error"}

\* setEx(cacheKey, 600, 'valid') and setEx(cacheKey, 300, 'invalid'): the
\* lifetimes, in seconds, of the two cached answers.
ValidTtl == 600

InvalidTtl == 300

\* A plausible slip: only the positive answer is looked up in the cache.
validateServiceViaGateway_NoNegativeCache(cached, gateway) ==
    IF cached = "valid"
    THEN [isValid |-> TRUE, cache |-> cached, ttl |-> 0, gatewayCalled |-> FALSE]
    ELSE IF gateway = "200"
    THEN [isValid |-> TRUE, cache |-> "valid", ttl |-> ValidTtl, gatewayCalled |-> TRUE]
    ELSE [isValid |-> FALSE, cache |-> "invalid", ttl |-> InvalidTtl, gatewayCalled |-> TRUE]

\* A plausible slip: a gateway that cannot be reached counts as acceptance.
validateServiceViaGateway_FailOpen(cached, gateway) ==
    IF cached = "valid"
    THEN [isValid |-> TRUE, cache |-> cached, ttl |-> 0, gatewayCalled |-> FALSE]
    ELSE IF cached = "invalid"
    THEN [isValid |-> FALSE, cache |-> cached, ttl |-> 0, gatewayCalled |-> FALSE]
    ELSE IF gateway \in {"200", "error"}
    THEN [isValid |-> TRUE, cache |-> "valid", ttl |-> ValidTtl, gatewayCalled |-> TRUE]
    ELSE [isValid |-> FALSE, cache |-> "invalid", ttl |-> InvalidTtl, gatewayCalled |-> TRUE]

\* cached: the value of service:<serviceId>:<tenantId> ("" when absent).
\* isValid: the answer. cache, ttl: the value the key holds afterwards and the
\* lifetime it was written with (0: no write). gatewayCalled: the POST was made.
validateServiceViaGateway(cached, gateway) ==
    IF cached = "valid"
    THEN [isValid |-> TRUE, cache |-> cached, ttl |-> 0, gatewayCalled |-> FALSE]
    ELSE IF cached = "invalid"
    THEN [isValid |-> FALSE, cache |-> cached, ttl |-> 0, gatewayCalled |-> FALSE]
    ELSE IF gateway = "200"
    THEN [isValid |-> TRUE, cache |-> "valid", ttl |-> ValidTtl, gatewayCalled |-> TRUE]
    ELSE [isValid |-> FALSE, cache |-> "invalid", ttl |-> InvalidTtl, gatewayCalled |-> TRUE]

\* Requests that call validateServiceViaGateway for service:svc1:t1 while
\* others are still in it.
CallerIds == {"a", "b", "c"}

\* pc: "idle", not called; "gateway", the GET missed and the POST is awaited;
\* "done", returned. gateway: what the POST did ("" when none was made).
NoValidateCall == [pc |-> "idle", gateway |-> "", isValid |-> FALSE]

\* The call up to its first await that can miss: the GET of the cache key. A hit
\* returns at once; a miss goes on to the POST.
ValidateBegin(a) ==
    /\ validateCalls[a].pc = "idle"
    /\ LET hit == validateServiceViaGateway(serviceCache, "error")
       IN  validateCalls' = [validateCalls EXCEPT ![a] =
               IF hit.gatewayCalled THEN [pc |-> "gateway", gateway |-> "", isValid |-> FALSE]
               ELSE [pc |-> "done", gateway |-> "", isValid |-> hit.isValid]]
    /\ UNCHANGED <<policyVars, sessionVars, gatewayVars, serviceCache, ingressReply, stream, group,
                   workers, taskLog>>

\* The gateway answers the POST of a call that missed; the call writes the
\* answer to the cache, over whatever is there by now, and returns.
ValidateEnd(a, gateway) ==
    /\ validateCalls[a].pc = "gateway"
    /\ LET miss == validateServiceViaGateway("", gateway)
       IN  /\ serviceCache' = miss.cache
           /\ validateCalls' = [validateCalls EXCEPT ![a] =
                   [pc |-> "done", gateway |-> gateway, isValid |-> miss.isValid]]
    /\ UNCHANGED <<policyVars, sessionVars, gatewayVars, ingressReply, stream, group, workers,
                   taskLog>>

ExpireServiceCache ==
    /\ serviceCache # ""
    /\ serviceCache' = ""
    /\ UNCHANGED <<policyVars, sessionVars, gatewayVars, validateCalls, ingressReply, stream, group, workers,
                   taskLog>>

(***************************************************************************)
(* Queue ingress: POST /api/v1/queue/task (queue/worker.ts)                *)
(***************************************************************************)
TaskTypes == {"email_dispatch", "media_processing", "service_routing", "notification",
              "announcement", "bulk_update"}

\* JSON.stringify of a payload value, and JSON.parse of a stored string: a
\* string that JSON.stringify did not produce does not parse.
JsonStringify(value) == <<"json", value>>

JsonParses(text) == text[1] = "json"

JsonParse(text) == text[2]

\* What the external services a handler calls will do to the attempts on a
\* record: "ok", every attempt returns; "failOnce", the first attempt throws and
\* a later one would return; "failAlways", every attempt throws.
Plans == {"ok", "failOnce", "failAlways"}

\* The Task no handleTask call has been made with.
NoTask == [id |-> NoId, serviceId |-> "", type |-> "", payload |-> "", tenantId |-> ""]

\* task: the Task the loop passed to handleTask for the record.
NewLog(plan) == [plan |-> plan, deliveries |-> 0, attempts |-> 0, result |-> "none", task |-> NoTask,
                 ackedAfter |-> "none", acked |-> FALSE]

\* A plausible slip: the record is written with an id made anew, not the one the
\* response returns.
XAdd_OwnId(fields, plan) ==
    /\ Len(stream) < MaxTasks
    /\ stream' = Append(stream, [fields EXCEPT !.id = <<"task", 0>>])
    /\ taskLog' = Append(taskLog, NewLog(plan))

\* XADD hermes:tasks *: the record becomes the last entry of the stream.
XAdd(fields, plan) ==
    /\ Len(stream) < MaxTasks
    /\ stream' = Append(stream, fields)
    /\ taskLog' = Append(taskLog, NewLog(plan))

\* Request bodies: a known type, a type outside the dispatch table, no type;
\* with or without a payload.
IngressBodies == { [type |-> t, payload |-> pl] :
                   t \in {"email_dispatch", "mystery", ""}, pl \in {"mail", ""} }

\* What can go wrong besides the checks: "body", c.req.json() throws on a body
\* that is no JSON; "store", redis.xAdd throws. Both end in the route's catch.
IngressFaults == {"none", "body", "store"}

\* gateway, ttl: what the service validation of the request did: "" when it did
\* not run, "cached" when it answered from the cache, else the outcome of its
\* call to the gateway and the lifetime it cached the answer with.
NoReply == [status |-> 0, taskId |-> NoId, gateway |-> "", ttl |-> 0]

ValidationDid(headersOk, validation, gateway) ==
    IF ~headersOk THEN ""
    ELSE IF validation.gatewayCalled THEN gateway
    ELSE "cached"

\* The HTTP status of the route, by the order of its checks: headers, service
\* validation, body parse, type and payload, xAdd.
IngressStatus(headersOk, isValid, body, fault) ==
    IF ~headersOk THEN 400
    ELSE IF ~isValid THEN 401
    ELSE IF fault = "body" THEN 500
    ELSE IF body.type = "" \/ body.payload = "" THEN 400
    ELSE IF fault = "store" THEN 500
    ELSE 200

\* A plausible slip: the record is appended before the request is checked.
IngressRejected_AppendsFirst ==
    \E headersOk \in BOOLEAN, gateway \in GatewayOutcomes, body \in IngressBodies,
       fault \in IngressFaults :
        LET validation == validateServiceViaGateway(serviceCache, gateway)
            status == IngressStatus(headersOk, validation.isValid, body, fault)
        IN  /\ status # 200
            /\ serviceCache' = IF headersOk THEN validation.cache ELSE serviceCache
            /\ ingressReply' = [status |-> status, taskId |-> NoId,
                                gateway |-> ValidationDid(headersOk, validation, gateway),
                                ttl |-> IF headersOk THEN validation.ttl ELSE 0]
            /\ XAdd([id |-> <<"task", Len(stream) + 1>>, service |-> "svc1", type |-> body.type,
                     payload |-> JsonStringify(body.payload), tenantId |-> "t1",
                     timestamp |-> "Date.now"], "ok")
            /\ UNCHANGED <<policyVars, sessionVars, gatewayVars, validateCalls, group, workers>>

\* A refused request: missing header (400), service not validated (401), body
\* no JSON (500), type or payload missing (400), xAdd failed (500). The
\* validation's answer is cached all the same.
IngressRejected ==
    \E headersOk \in BOOLEAN, gateway \in GatewayOutcomes, body \in IngressBodies,
       fault \in IngressFaults :
        LET validation == validateServiceViaGateway(serviceCache, gateway)
            status == IngressStatus(headersOk, validation.isValid, body, fault)
        IN  /\ status # 200
            /\ serviceCache' = IF headersOk THEN validation.cache ELSE serviceCache
            /\ ingressReply' = [status |-> status, taskId |-> NoId,
                                gateway |-> ValidationDid(headersOk, validation, gateway),
                                ttl |-> IF headersOk THEN validation.ttl ELSE 0]
            /\ UNCHANGED <<policyVars, sessionVars, gatewayVars, validateCalls, stream, group, workers,
                           taskLog>>

\* An accepted request appends one record and returns its task id.
IngressAccepted ==
    \E gateway \in GatewayOutcomes, body \in IngressBodies, plan \in Plans :
        LET validation == validateServiceViaGateway(serviceCache, gateway)
            taskId == <<"task", Len(stream) + 1>>
        IN  /\ IngressStatus(TRUE, validation.isValid, body, "none") = 200
            /\ body.type \notin TaskTypes => plan = "ok"
            /\ serviceCache' = validation.cache
            /\ XAdd([id |-> taskId, service |-> "svc1", type |-> body.type,
                     payload |-> JsonStringify(body.payload), tenantId |-> "t1",
                     timestamp |-> "Date.now"], plan)
            /\ ingressReply' = [status |-> 200, taskId |-> taskId,
                                gateway |-> ValidationDid(TRUE, validation, gateway),
                                ttl |-> validation.ttl]
            /\ UNCHANGED <<policyVars, sessionVars, gatewayVars, validateCalls, group, workers>>

\* A record another producer on the shared stream appends, its payload no JSON.
ForeignRecord ==
    /\ XAdd([id |-> <<"task", Len(stream) + 1>>, service |-> "other", type |-> "email_dispatch",
               payload |-> <<"raw", "mail">>, tenantId |-> "t1", timestamp |-> "Date.now"], "ok")
    /\ UNCHANGED <<policyVars, sessionVars, gatewayVars, ingressVars, group, workers>>

(***************************************************************************)
(* Queue consumer: processQueue (queue/worker.ts) and handleTask            *)
(* (services/queue-services.ts)                                            *)
(***************************************************************************)
\* handleTask: the handler of the task's type runs and returns or throws as the
\* external services decide; a type outside the table is logged, and handleTask
\* returns.
handleTask(type, plan, attempt) ==
    IF type \notin TaskTypes THEN "ok"
    ELSE IF plan = "failAlways" \/ (plan = "failOnce" /\ attempt = 1) THEN "threw"
    ELSE "ok"

SetWorker(w, pc, cur) == workers' = [workers EXCEPT ![w] = [pc |-> pc, cur |-> cur]]

\* startWorker calls processQueue.
StartWorker(w) ==
    /\ workers[w].pc = "off"
    /\ SetWorker(w, "create", 0)
    /\ UNCHANGED <<policyVars, sessionVars, gatewayVars, ingressVars, stream, group, taskLog>>

\* A plausible slip: the group is created at '$', after the stream's last entry.
GroupCreate_FromEnd(w, storeOk) ==
    /\ workers[w].pc = "create"
    /\ group' = IF storeOk /\ ~group.exists
                 THEN [group EXCEPT !.exists = TRUE, !.lastDelivered = Len(stream)]
                 ELSE group
    /\ SetWorker(w, "read", 0)
    /\ UNCHANGED <<policyVars, sessionVars, gatewayVars, ingressVars, stream, taskLog>>

\* A plausible slip: a create that finds the group makes it anew.
GroupCreate_Recreate(w, storeOk) ==
    /\ workers[w].pc = "create"
    /\ group' = IF storeOk THEN [exists |-> TRUE, lastDelivered |-> 0, pending |-> {}] ELSE group
    /\ SetWorker(w, "read", 0)
    /\ UNCHANGED <<policyVars, sessionVars, gatewayVars, ingressVars, stream, taskLog>>

\* xGroupCreate(..., '0', MKSTREAM): creates the group, or fails with BUSYGROUP
\* when it exists, or fails on a store error; every failure is passed over.
GroupCreate(w, storeOk) ==
    /\ workers[w].pc = "create"
    /\ group' = IF storeOk /\ ~group.exists THEN [group EXCEPT !.exists = TRUE] ELSE group
    /\ SetWorker(w, "read", 0)
    /\ UNCHANGED <<policyVars, sessionVars, gatewayVars, ingressVars, stream, taskLog>>

\* A plausible slip: the read serves the pending entries before the new ones.
ReadTarget_PendingFirst ==
    IF group.pending # {} THEN CHOOSE k \in group.pending : TRUE
    ELSE IF group.lastDelivered < Len(stream) THEN group.lastDelivered + 1 ELSE 0

\* A plausible slip: an entry whose handler threw is claimed again before the
\* new ones.
ReadTarget_RetryFailed ==
    LET failed == { k \in group.pending : taskLog[k].result = "threw" } IN
    IF failed # {} THEN CHOOSE k \in failed : TRUE
    ELSE IF group.lastDelivered < Len(stream) THEN group.lastDelivered + 1 ELSE 0

\* xReadGroup(..., id '>', COUNT 1): the entry after the group's last-delivered
\* id, if there is one; 0 if there is none.
ReadTarget == IF group.lastDelivered < Len(stream) THEN group.lastDelivered + 1 ELSE 0

\* A plausible slip: the loop also waits after a read that returned nothing.
ReadGroup_BackoffOnTimeout(w, storeOk) ==
    /\ workers[w].pc = "read"
    /\ LET k == ReadTarget IN
       IF ~storeOk \/ ~group.exists \/ k = 0
       THEN /\ SetWorker(w, "backoff", 0)
            /\ UNCHANGED <<group, taskLog>>
       ELSE /\ SetWorker(w, "handle", k)
            /\ group' = [group EXCEPT !.lastDelivered = IF k > @ THEN k ELSE @,
                                      !.pending = @ \cup {k}]
            /\ taskLog' = [taskLog EXCEPT ![k].deliveries = @ + 1]
    /\ UNCHANGED <<policyVars, sessionVars, gatewayVars, ingressVars, stream>>

\* One xReadGroup. storeOk = FALSE, or no group: the read throws and the loop
\* backs off. No entry: the read returns null after BLOCK and the loop reads
\* again. An entry: it joins the pending list of hermes-consumer and is
\* handled next.
ReadGroup(w, storeOk) ==
    /\ workers[w].pc = "read"
    /\ LET k == ReadTarget IN
       IF ~storeOk \/ ~group.exists
       THEN /\ SetWorker(w, "backoff", 0)
            /\ UNCHANGED <<group, taskLog>>
       ELSE IF k = 0
       THEN UNCHANGED <<workers, group, taskLog>>
       ELSE /\ SetWorker(w, "handle", k)
            /\ group' = [group EXCEPT !.lastDelivered = IF k > @ THEN k ELSE @,
                                      !.pending = @ \cup {k}]
            /\ taskLog' = [taskLog EXCEPT ![k].deliveries = @ + 1]
    /\ UNCHANGED <<policyVars, sessionVars, gatewayVars, ingressVars, stream>>

\* setTimeout(resolve, 1000) after a failed read.
Backoff(w) ==
    /\ workers[w].pc = "backoff"
    /\ SetWorker(w, "read", 0)
    /\ UNCHANGED <<policyVars, sessionVars, gatewayVars, ingressVars, stream, group, taskLog>>

\* A plausible slip: the acknowledgment is sent whatever the handler did.
AfterHandle_AlwaysAck(result) == "ack"

\* A plausible slip: no inner catch, a throw of the handler ends the loop.
AfterHandle_ThrowEndsLoop(result) == IF result = "ok" THEN "ack" ELSE "off"

\* Where the loop goes after the try block's decode and handleTask: to xAck
\* when both returned, to the next read when one threw (the catch logs).
AfterHandle(result) == IF result = "ok" THEN "ack" ELSE "read"

\* The id XADD hermes:tasks * gives the k-th entry of the stream.
EntryId(k) == <<"entry", k>>

\* parsedTask: id is the entry's id, the other fields come from the entry's
\* field-value pairs, the payload through JSON.parse.
parsedTask(k, message) ==
    [id |-> EntryId(k), serviceId |-> message.service, type |-> message.type,
     payload |-> JsonParse(message.payload), tenantId |-> message.tenantId]

\* The body of the try block up to handleTask's return.
Handle(w) ==
    /\ workers[w].pc = "handle"
    /\ LET k == workers[w].cur
           record == stream[k]
           attempt == taskLog[k].attempts + 1
           result == IF ~JsonParses(record.payload) THEN "decode"
                     ELSE handleTask(record.type, taskLog[k].plan, attempt)
       IN  /\ taskLog' = [taskLog EXCEPT ![k].attempts = attempt, ![k].result = result,
                                         ![k].task = IF result = "decode" THEN @
                                                     ELSE parsedTask(k, record)]
           /\ SetWorker(w, AfterHandle(result), IF AfterHandle(result) = "ack" THEN k ELSE 0)
    /\ UNCHANGED <<policyVars, sessionVars, gatewayVars, ingressVars, stream, group>>

\* xAck: the entry leaves the pending list; on a store error the catch logs and
\* the entry stays pending.
Ack(w, storeOk) ==
    /\ workers[w].pc = "ack"
    /\ LET k == workers[w].cur IN
       IF storeOk
       THEN /\ group' = [group EXCEPT !.pending = @ \ {k}]
            /\ taskLog' = [taskLog EXCEPT ![k].acked = TRUE, ![k].ackedAfter = taskLog[k].result]
       ELSE UNCHANGED <<group, taskLog>>
    /\ SetWorker(w, "read", 0)
    /\ UNCHANGED <<policyVars, sessionVars, gatewayVars, ingressVars, stream>>

\* A step of the loop with the store answering.
ConsumerStep(w) ==
    \/ GroupCreate(w, TRUE)
    \/ ReadGroup(w, TRUE)
    \/ Backoff(w)
    \/ Handle(w)
    \/ Ack(w, TRUE)

\* A step of the loop on which the store fails.
ConsumerStoreError(w) ==
    \/ GroupCreate(w, FALSE)
    \/ ReadGroup(w, FALSE)
    \/ Ack(w, FALSE)

(***************************************************************************)
(* Initial states and the specification of sessions and upgrade            *)
(***************************************************************************)
NoPolicyCall == [senderId |-> "", senderType |-> "", recipientId |-> "", recipientType |-> "",
                 called |-> FALSE, canMessage |-> FALSE, allowedRecipients |-> {},
                 errorMessage |-> ""]

InitStore ==
    /\ sessionKey = [sid \in SessionIds |-> NoKey]
    /\ tenantKey = [sid \in SessionIds |-> ""]
    /\ userSessionKey = [u \in Users |-> ""]
    /\ wsSessions = [sid \in SessionIds |-> NoWsSession]
    /\ issuedSids = {}

\* The queue before the worker process is started.
InitQueueIdle ==
    /\ serviceCache = ""
    /\ validateCalls = [a \in CallerIds |-> NoValidateCall]
    /\ ingressReply = NoReply
    /\ stream = <<>>
    /\ group = [exists |-> FALSE, lastDelivered |-> 0, pending |-> {}]
    /\ workers = [w \in WorkerIds |-> [pc |-> "off", cur |-> 0]]
    /\ taskLog = <<>>

Init ==
    /\ policyCall = NoPolicyCall
    /\ InitStore
    /\ conns = [c \in ConnIds |-> FreshConn]
    /\ rooms = [rid \in RoomIds |-> {}]
    /\ lastFrame = NoFrame
    /\ httpReply = NoHttp
    /\ InitQueueIdle

Next ==
    \/ InitiateRejected
    \/ InitiateSession
    \/ InitiateStoreFailure
    \/ ExpireSession
    \/ ExternalSessionHash
    \/ Upgrade
    \/ CloseHandler

Spec == Init /\ [][Next]_vars

(***************************************************************************)
(* The session store on its own: sessions issued (also with a store failure *)
(* between the writes), revoked, and expiring key by key.                   *)
(***************************************************************************)
NextSessions ==
    \/ InitiateSession
    \/ InitiateStoreFailure
    \/ RemoveSessionCall
    \/ ExpireSessionKey
    \/ ExpireTenantKey
    \/ ExpireUserKey

SpecSessions == Init /\ [][NextSessions]_vars

\* The gateway's HTTP routes beside session initiation, from the store as
\* POST /api/v1/session/initiate leaves it after issuing s1 to u1; s2 may hold a
\* hash written by another service.
InitHttp ==
    /\ policyCall = NoPolicyCall
    /\ sessionKey \in { [sid \in SessionIds |-> IF sid = "s1" THEN StringKey("u1") ELSE k] :
                        k \in {NoKey, HashKey("u2", "student", "t1")} }
    /\ tenantKey = [sid \in SessionIds |-> IF sid = "s1" THEN "t1" ELSE ""]
    /\ userSessionKey = [u \in Users |-> IF u = "u1" THEN "s1" ELSE ""]
    /\ wsSessions = [sid \in SessionIds |->
                        IF sid = "s1"
                        THEN [present |-> TRUE, userId |-> "u1", userType |-> "director",
                              tenantId |-> "t1"]
                        ELSE NoWsSession]
    /\ issuedSids = {"s1"}
    /\ conns = [c \in ConnIds |-> FreshConn]
    /\ rooms = [rid \in RoomIds |-> {}]
    /\ lastFrame = NoFrame
    /\ httpReply = NoHttp
    /\ InitQueueIdle

NextHttp ==
    \/ ExpireSession
    \/ CreateGroup
    \/ ExpireRoom
    \/ History

SpecHttp == InitHttp /\ [][NextHttp]_vars

(***************************************************************************)
(* Frames on admitted connections. Each connection starts as the upgrade    *)
(* handler leaves it for a session hash of some user (sessionId, token: the *)
(* handshake's); each room holds members createGroupRoom can have added.    *)
(***************************************************************************)
AdmittedConn(u, sid) ==
    [state |-> "OPEN", userId |-> u, userType |-> JanusRole(u), tenantId |-> JanusTenant(u),
     sessionId |-> sid, token |-> "tok_u1", hsStore |-> "hash"]

InitialRooms == { {}, {"u1"}, {"u1", "u3"}, {"u1", "u2", "u3"} }

InitFrames ==
    /\ policyCall = NoPolicyCall
    /\ InitStore
    /\ \E u1 \in Users, u2 \in Users :
           conns = [c \in ConnIds |-> IF c = "c1" THEN AdmittedConn(u1, "s1")
                                      ELSE AdmittedConn(u2, "s2")]
    /\ rooms \in [RoomIds -> InitialRooms]
    /\ lastFrame = NoFrame
    /\ httpReply = NoHttp
    /\ InitQueueIdle

NextFrames ==
    \/ MessageHandler
    \/ CloseHandler

SpecFrames == InitFrames /\ [][NextFrames]_vars

\* Frames of two admitted connections, a guardian's and a director's, with
\* closes that may fall into a handler's awaits.
InitFramesAsync ==
    /\ policyCall = NoPolicyCall
    /\ InitStore
    /\ conns = [c \in ConnIds |-> IF c = "c1" THEN AdmittedConn("u3", "s1")
                                   ELSE AdmittedConn("u1", "s2")]
    /\ rooms = [rid \in RoomIds |-> {"u1", "u3"}]
    /\ lastFrame = NoFrame
    /\ httpReply = NoHttp
    /\ InitQueueIdle

NextFramesAsync ==
    \/ MessageHandler
    \/ MessageHandlerCutOff
    \/ CloseHandler

SpecFramesAsync == InitFramesAsync /\ [][NextFramesAsync]_vars

(***************************************************************************)
(* The communication policy on its own: the arguments are drawn, the        *)
(* function is applied once.                                                *)
(***************************************************************************)
InitPolicy ==
    /\ \E senderId \in Users, recipientId \in Users, senderType \in Roles, recipientType \in Roles :
           policyCall = [NoPolicyCall EXCEPT !.senderId = senderId, !.senderType = senderType,
                                             !.recipientId = recipientId,
                                             !.recipientType = recipientType]
    /\ InitStore
    /\ conns = [c \in ConnIds |-> FreshConn]
    /\ rooms = [rid \in RoomIds |-> {}]
    /\ lastFrame = NoFrame
    /\ httpReply = NoHttp
    /\ InitQueueIdle

CheckPermissions ==
    /\ ~policyCall.called
    /\ LET r == checkCommunicationPermissions(policyCall.senderId, policyCall.senderType,
                                              policyCall.recipientId, policyCall.recipientType)
       IN  policyCall' = [policyCall EXCEPT !.called = TRUE, !.canMessage = r.canMessage,
                                            !.allowedRecipients = r.allowedRecipients,
                                            !.errorMessage = r.errorMessage]
    /\ UNCHANGED <<sessionVars, gatewayVars, queueVars>>

SpecPolicy == InitPolicy /\ [][CheckPermissions]_vars

(***************************************************************************)
(* The queue's specification                                               *)
(***************************************************************************)
\* Accepted requests, other producers and the consumer loops. A refused request
\* leaves the stream as it is (NextIngress has them).
NextQueue ==
    \/ IngressAccepted
    \/ ForeignRecord
    \/ ExpireServiceCache
    \/ \E w \in WorkerIds : StartWorker(w)
    \/ \E w \in WorkerIds : ConsumerStep(w)
    \/ \E w \in WorkerIds : ConsumerStoreError(w)

SpecQueue == Init /\ [][NextQueue]_vars

\* The event loop runs every loop that can take a step.
SpecQueueFair ==
    Init /\ [][NextQueue]_vars /\ \A w \in WorkerIds : WF_vars(StartWorker(w) \/ ConsumerStep(w))

\* The loop while the store answers every call: the group exists from the first
\* xGroupCreate on, so no read fails and the loop never backs off.
\* The stream and its loops with the calling service validated once.
NextConsumers ==
    \/ IngressAccepted
    \/ ForeignRecord
    \/ \E w \in WorkerIds : StartWorker(w)
    \/ \E w \in WorkerIds : ConsumerStep(w)
    \/ \E w \in WorkerIds : ConsumerStoreError(w)

\* The loops scheduled fairly over a store that may fail any call but does not
\* fail the reads of a loop for ever.
SpecQueueRecovering ==
    /\ Init
    /\ [][NextConsumers]_vars
    /\ \A w \in WorkerIds :
          /\ WF_vars(StartWorker(w) \/ ConsumerStep(w))
          /\ SF_vars(ReadGroup(w, TRUE))

ConsumerStepReachable(w) ==
    \/ GroupCreate(w, TRUE)
    \/ ReadGroup(w, TRUE)
    \/ Handle(w)
    \/ Ack(w, TRUE)

NextQueueReachable ==
    \/ IngressAccepted
    \/ ForeignRecord
    \/ ExpireServiceCache
    \/ \E w \in WorkerIds : StartWorker(w)
    \/ \E w \in WorkerIds : ConsumerStepReachable(w)

SpecQueueReachable ==
    Init /\ [][NextQueueReachable]_vars
         /\ \A w \in WorkerIds : WF_vars(StartWorker(w) \/ ConsumerStepReachable(w))

(***************************************************************************)
(* The ingress route on its own, refused requests included                  *)
(***************************************************************************)
NextIngress ==
    \/ IngressRejected
    \/ IngressAccepted
    \/ ForeignRecord
    \/ ExpireServiceCache

SpecIngress == Init /\ [][NextIngress]_vars

\* Calls of validateServiceViaGateway side by side within one lifetime of the
\* cache entry, from an empty cache.
NextValidate ==
    \/ \E a \in CallerIds : ValidateBegin(a)
    \/ \E a \in CallerIds, gateway \in GatewayOutcomes : ValidateEnd(a, gateway)

SpecValidate == Init /\ [][NextValidate]_vars

(***************************************************************************)
(* Properties                                                              *)
(***************************************************************************)
DirectorStudent(a, b) == {a, b} = {"director", "student"}

BoundRole(c) == conns[c].userType

\* C1: a direct frame whose bound sender role and recipient role (as the lookup
\* returned it) are director and student, in either order, persists nothing,
\* publishes nothing, and is answered with the error frame that carries the
\* policy's denial.
C1_DirectorStudentDenied ==
    (lastFrame.type = "direct" /\ DirectorStudent(BoundRole(lastFrame.conn), lastFrame.recipientType))
        => /\ lastFrame.saved = {}
           /\ lastFrame.pubs = {}
           /\ lastFrame.response = [type |-> "error", message |-> DenyMessage, messageId |-> NoId]

\* A student-bound connection has addressed a director and has been refused.
C1_Witness ==
    /\ lastFrame.type = "direct"
    /\ BoundRole(lastFrame.conn) = "student"
    /\ lastFrame.recipientType = "director"
    /\ lastFrame.response.type = "error"

\* C2: when the recipient-role lookup of a direct frame fails (error, Janus
\* unreachable, no valid role), the message is neither persisted nor published.
C2_LookupFailsClosed ==
    (lastFrame.type = "direct" /\ lastFrame.lookup = "failed")
        => (lastFrame.saved = {} /\ lastFrame.pubs = {})

\* C3: the policy denies, with a non-empty reason, exactly the pairs (director,
\* student) and (student, director), allows every other pair, and decides the
\* same for any other sender and recipient ids.
C3_PolicyTable ==
    policyCall.called =>
        /\ policyCall.canMessage = ~DirectorStudent(policyCall.senderType, policyCall.recipientType)
        /\ (~policyCall.canMessage => policyCall.errorMessage # "")
        /\ \A i \in Users, j \in Users :
             LET r == checkCommunicationPermissions(i, policyCall.senderType, j, policyCall.recipientType)
             IN  r.canMessage = policyCall.canMessage /\ r.errorMessage = policyCall.errorMessage

\* The policy has been applied to (student, director) and has denied.
C3_Witness ==
    /\ policyCall.called
    /\ policyCall.senderType = "student"
    /\ policyCall.recipientType = "director"
    /\ ~policyCall.canMessage

\* C4: a connection is OPEN only if its handshake carried a sessionId and a bearer
\* token and the store held a record under that session id; a handshake that
\* lacks one of the three ends CLOSED with nothing bound.
C4_NoOpenWithoutSession ==
    \A c \in ConnIds :
        (conns[c].state # "CONNECTING"
         /\ (conns[c].sessionId = "" \/ conns[c].token = "" \/ conns[c].hsStore = "none"))
            => (conns[c].state = "CLOSED" /\ conns[c].userId = "")

\* A handshake with a token has named a session that was issued and has since
\* expired, and has been refused.
C4_Witness ==
    \E c \in ConnIds :
        /\ conns[c].state = "CLOSED"
        /\ conns[c].sessionId \in issuedSids
        /\ conns[c].token # ""
        /\ conns[c].hsStore = "none"

\* C5: a connection is OPEN only if its bearer token verifies and belongs to the
\* user of its session.
C5_OpenOnlyWithValidToken ==
    \A c \in ConnIds :
        conns[c].state = "OPEN" => TokenUser(conns[c].token) = conns[c].userId

\* C6: a handshake that names a session stored by POST /session/initiate, not
\* expired, and carries a bearer token is admitted, with the user, role and
\* tenant the session was issued with.
C6_IssuedSessionAdmitted ==
    \A c \in ConnIds :
        (conns[c].state # "CONNECTING" /\ conns[c].hsStore = "string" /\ conns[c].token # "")
            => /\ conns[c].userId # ""
               /\ wsSessions[conns[c].sessionId].present
                    => /\ conns[c].userId = wsSessions[conns[c].sessionId].userId
                       /\ conns[c].userType = wsSessions[conns[c].sessionId].userType
                       /\ conns[c].tenantId = wsSessions[conns[c].sessionId].tenantId

\* C7: every message a frame persists or publishes carries the user, role and
\* tenant bound to the frame's connection.
FromBoundIdentity(c, m) ==
    /\ m.senderId = conns[c].userId
    /\ m.senderType = conns[c].userType
    /\ m.tenantId = conns[c].tenantId

C7_SenderIsBoundIdentity ==
    /\ \A d \in lastFrame.saved : FromBoundIdentity(lastFrame.conn, d.msg)
    /\ \A p \in lastFrame.pubs : FromBoundIdentity(lastFrame.conn, p.msg)

\* A frame on a connection bound to u1, whose payload names another sender, has
\* been persisted and published.
C7_Witness ==
    /\ lastFrame.type = "direct"
    /\ conns[lastFrame.conn].userId = "u1"
    /\ lastFrame.saved # {}
    /\ lastFrame.pubs # {}

Records == 1..Len(taskLog)

Failed(k) == taskLog[k].result \in {"threw", "decode"}

\* C8: a record is acknowledged only after handleTask has returned for it without
\* error: never before the handler has run, never after the handler or the
\* decoding of the payload threw.
C8_AckOnlyAfterSuccess ==
    /\ \A k \in Records : taskLog[k].acked => (taskLog[k].attempts >= 1 /\ taskLog[k].ackedAfter = "ok")
    /\ \A w \in WorkerIds : workers[w].pc = "ack" => taskLog[workers[w].cur].result = "ok"

\* One record has been acknowledged while another, whose handler threw, has not.
C8_Witness ==
    \E k \in Records, j \in Records :
        /\ taskLog[k].acked
        /\ taskLog[j].result = "threw"
        /\ ~taskLog[j].acked

\* C9: a record whose handler (or decoding) threw is pending and stays pending in
\* every later state; no step delivers it again, handles it again, acknowledges
\* it or removes it from the pending list.
C9_FailedStaysPending ==
    [][\A k \in Records :
          Failed(k) => /\ k \in group.pending
                       /\ k \in group'.pending
                       /\ ~taskLog'[k].acked
                       /\ taskLog'[k].deliveries = taskLog[k].deliveries
                       /\ taskLog'[k].attempts = taskLog[k].attempts]_vars

\* A record's handler has thrown, and the loop has since handled and acknowledged
\* a later record.
C9_Witness ==
    \E k \in Records, j \in Records :
        /\ k < j
        /\ taskLog[k].result = "threw"
        /\ k \in group.pending
        /\ taskLog[j].acked

C11_UnknownTypeNotAcked ==
    \A k \in Records : stream[k].type \notin TaskTypes => ~taskLog[k].acked

\* C12: with the store answering and the loops scheduled fairly, every record
\* the ingress route appended is eventually delivered and handled, never more
\* than once, and is eventually acknowledged when its handler returned.
IngressRecord(k) == k \in Records /\ stream[k].service = "svc1"

C12_AppendedEventuallyHandledOnceAndAcked ==
    /\ \A k \in 1..MaxTasks :
          IngressRecord(k) ~> (k \in Records /\ taskLog[k].deliveries = 1 /\ taskLog[k].attempts = 1)
    /\ \A k \in 1..MaxTasks :
          (IngressRecord(k) /\ taskLog[k].result = "ok") ~> (k \in Records /\ taskLog[k].acked)
    /\ [](\A k \in Records : taskLog[k].deliveries <= 1 /\ taskLog[k].attempts <= taskLog[k].deliveries)

\* Two records of the ingress route have been handled, one returned and is
\* acknowledged, the other threw.
C12_Witness ==
    \E k \in Records, j \in Records :
        /\ IngressRecord(k) /\ IngressRecord(j)
        /\ taskLog[k].attempts = 1 /\ taskLog[k].result = "ok" /\ taskLog[k].acked
        /\ taskLog[j].attempts = 1 /\ taskLog[j].result = "threw"

\* C13: with several loops reading group hermes-group under one consumer name, no
\* record is delivered or handled twice and no two loops hold the same record;
\* a create that finds the group leaves it as it is, and every loop goes on from
\* the create to its first read and never stops.
C13_OneWorkerPerRecord ==
    /\ [](\A k \in Records : taskLog[k].deliveries <= 1 /\ taskLog[k].attempts <= 1)
    /\ [](\A v \in WorkerIds, w \in WorkerIds :
             (v # w /\ workers[v].cur # 0) => workers[v].cur # workers[w].cur)
    /\ [][\A w \in WorkerIds :
             /\ (workers[w].pc = "create" /\ workers'[w] # workers[w])
                   => (workers'[w].pc = "read" /\ (group.exists => group' = group))
             /\ workers[w].pc # "off" => workers'[w].pc # "off"]_vars

\* Both loops were started, the group exists, and the loops hold two different
\* records at once.
C13_Witness ==
    /\ group.exists
    /\ \A w \in WorkerIds : workers[w].pc \in {"handle", "ack"}
    /\ group.lastDelivered = 2

\* A step on which the ingress route answered a request.
IngressAnswered == ingressReply' # ingressReply \/ serviceCache' # serviceCache

\* C14: a request answered with a refusal (400, 401, 500) leaves the stream as
\* it is; a record of the calling service is appended only by a request that is
\* answered 200, with the service validated for its tenant and a type and a
\* payload in the body.
C14_RejectedAppendsNothing ==
    [][/\ (IngressAnswered /\ ingressReply'.status # 200) => stream' = stream
       /\ (Len(stream') > Len(stream) /\ stream'[Len(stream')].service = "svc1")
             => /\ ingressReply'.status = 200
                /\ ingressReply' # ingressReply
                /\ serviceCache' = "valid"
                /\ stream'[Len(stream')].type # ""
                /\ stream'[Len(stream')].payload # JsonStringify("")]_vars

\* A request has been refused with 401 while the stream holds a record.
C14_Witness ==
    /\ ingressReply.status = 401
    /\ serviceCache = "invalid"
    /\ Len(stream) >= 1

\* C15: an accepted request appends exactly one record, which carries the
\* generated task id, the caller's service and tenant, the type, the serialized
\* payload and a timestamp, and the response returns that task id; no step
\* changes or removes a record the stream already holds.
C15_OneRecordPerAcceptedRequest ==
    [][/\ (ingressReply' # ingressReply /\ ingressReply'.status = 200)
             => /\ Len(stream') = Len(stream) + 1
                /\ LET record == stream'[Len(stream')] IN
                     /\ record.id = ingressReply'.taskId
                     /\ record.id # NoId
                     /\ record.service = "svc1" /\ record.tenantId = "t1"
                     /\ record.type # ""
                     /\ JsonParses(record.payload) /\ JsonParse(record.payload) # ""
                     /\ record.timestamp # ""
       /\ Len(stream') >= Len(stream)
       /\ \A k \in 1..Len(stream) : stream'[k] = stream[k]]_vars

\* Two requests have been accepted, the second answered with its own task id
\* after the consumer handled and acknowledged the first.
C15_Witness ==
    /\ Len(stream) = 2
    /\ stream[1].service = "svc1"
    /\ taskLog[1].acked
    /\ ingressReply.status = 200
    /\ ingressReply.taskId = stream[2].id

\* The user ids validateSession can be asked about, the empty one included.
AskedUserIds == Users \cup {""}

\* C16: right after storeSession(sessionId, userId, tenantId) has completed (its
\* third write links the user to the session), validateSession(sessionId, u) is
\* true for u = userId and false for every other user id.
C16_ValidAfterStoreForIssuingUserOnly ==
    [][\A sid \in SessionIds, u \in Users :
          (sid \in issuedSids' \ issuedSids /\ userSessionKey'[u] = sid)
             => \A v \in AskedUserIds :
                   /\ ~validateSession(sid, v)'.threw
                   /\ validateSession(sid, v)'.valid <=> (v = u)]_vars

\* A session has been stored for u2 and validates for u2.
C16_Witness ==
    \E sid \in issuedSids :
        /\ userSessionKey["u2"] = sid
        /\ validateSession(sid, "u2").valid
        /\ ~validateSession(sid, "u1").valid

\* C17: for a session id whose key has expired, and for one that was never
\* issued, validateSession returns false for every user id and does not throw.
C17_AbsentSessionIsInvalid ==
    \A sid \in SessionIds :
        sessionKey[sid].kind = "none"
            => \A v \in AskedUserIds :
                  ~validateSession(sid, v).threw /\ ~validateSession(sid, v).valid

\* One session was stored in full and all its keys have expired; the other
\* session id was never issued.
C17_Witness ==
    \E sid \in issuedSids, other \in SessionIds \ issuedSids :
        /\ wsSessions[sid].present
        /\ sessionKey[sid].kind = "none" /\ tenantKey[sid] = ""
        /\ userSessionKey[wsSessions[sid].userId] = ""
        /\ sessionKey[other].kind = "none"

\* C18: removeSession(sessionId, userId) leaves the session invalid and without
\* a tenant, and on a session whose keys are already gone it changes no key.
SessionGone(sid) == sessionKey[sid].kind = "none" /\ tenantKey[sid] = ""

C18_RevokeIsIdempotent ==
    [][\A sid \in SessionIds :
          (wsSessions[sid].present /\ removeSession(sid, wsSessions[sid].userId))
             => /\ ~validateSession(sid, wsSessions[sid].userId)'.valid
                /\ getTenantFromSession(sid)' = Nil
                /\ SessionGone(sid) => UNCHANGED <<sessionKey, tenantKey, userSessionKey>>]_vars

\* C19: a session validates for a user only while all three linked keys are
\* there: session:<sid>, session:tenant:<sid> and user:session:<uid>.
C19_PartialSessionIsInvalid ==
    \A sid \in SessionIds, u \in Users :
        validateSession(sid, u).valid => (tenantKey[sid] # "" /\ userSessionKey[u] # "")

\* C20: a direct frame whose role pair is allowed and whose store calls succeed
\* runs the policy check, then one write of a message with recipientIds =
\* [recipientId], status sent and (without media) messageType direct, then one
\* publish of it on user:<recipientId>, then one message_sent frame that carries
\* the id the write returned.
C20_DirectFrameOrder ==
    (/\ lastFrame.type = "direct"
     /\ ~DirectorStudent(BoundRole(lastFrame.conn), lastFrame.recipientType)
     /\ lastFrame.stores = "ok")
        => /\ lastFrame.steps = <<"lookup", "policy", "save", "publish", "send">>
           /\ Cardinality(lastFrame.saved) = 1
           /\ Cardinality(lastFrame.pubs) = 1
           /\ \A d \in lastFrame.saved :
                 /\ d.msg.recipientIds = {lastFrame.recipientId}
                 /\ d.msg.status = "sent"
                 /\ ~lastFrame.hasMedia => d.msg.messageType = "direct"
                 /\ lastFrame.pubs = {[channel |-> lastFrame.recipientId, msg |-> d.msg]}
                 /\ lastFrame.response = [type |-> "message_sent",
                                          message |-> "Message sent successfully",
                                          messageId |-> d.docId]
                 /\ d.docId # NoId

\* A guardian-bound connection has sent a direct frame without media to the
\* director, the lookup answered, and the stores took the message.
C20_Witness ==
    /\ lastFrame.type = "direct"
    /\ BoundRole(lastFrame.conn) = "guardian"
    /\ lastFrame.recipientType = "director"
    /\ lastFrame.lookup = "ok"
    /\ lastFrame.stores = "ok"
    /\ ~lastFrame.hasMedia
    /\ lastFrame.response.type = "message_sent"

\* The handler of the last frame made the call named.
Called(step) == \E i \in 1..Len(lastFrame.steps) : lastFrame.steps[i] = step

\* C21: a direct frame during which the write to the messages collection or the
\* publish failed is answered with an error frame, never with message_sent; when
\* the write failed, nothing was published.
C21_StoreFailureIsError ==
    (lastFrame.type = "direct" /\ Called("save")
     /\ lastFrame.stores \in {"saveFails", "publishFails"})
        => /\ lastFrame.response.type = "error"
           /\ lastFrame.response.messageId = NoId
           /\ lastFrame.stores = "saveFails"
                 => (lastFrame.pubs = {} /\ ~Called("publish"))

\* An allowed direct frame whose message was written and whose publish failed,
\* answered with an error frame.
C21_Witness ==
    /\ lastFrame.type = "direct"
    /\ lastFrame.stores = "publishFails"
    /\ lastFrame.steps = <<"lookup", "policy", "save", "publish", "send">>
    /\ lastFrame.saved # {}
    /\ lastFrame.pubs = {}
    /\ lastFrame.response.type = "error"

\* C22: every message the gateway publishes, for a direct frame and for a group
\* frame, has been written to the messages collection by the same frame.
C22_PublishedWasPersisted ==
    \A p \in lastFrame.pubs : \E d \in lastFrame.saved : d.msg = p.msg

\* C23: a group frame for room R whose store calls succeed publishes one
\* envelope, with recipientIds = the members of R other than the sender, once on
\* user:<m> for each such member m and on no other channel (not the sender's;
\* nothing at all when R is empty or holds the sender only), and then answers
\* the sender with group_message_sent.
C23_GroupFanOut ==
    (lastFrame.type = "group" /\ lastFrame.stores = "ok")
        => LET sender == conns[lastFrame.conn].userId
               others == rooms[lastFrame.recipientId] \ {sender}
           IN  /\ { p.channel : p \in lastFrame.pubs } = others
               /\ Cardinality(lastFrame.pubs) = Cardinality(others)
               /\ \A p \in lastFrame.pubs :
                     /\ p.msg.recipientIds = others
                     /\ p.msg.senderId = sender
               /\ Cardinality({ p.msg : p \in lastFrame.pubs }) <= 1
               /\ lastFrame.steps = <<"members">> \o [i \in 1..Cardinality(others) |-> "publish"]
                                       \o <<"send">>
               /\ lastFrame.response.type = "group_message_sent"

\* A member of a room of three has sent a group frame: two publishes, none on the
\* sender's own channel, and the acknowledgement.
C23_Witness ==
    /\ lastFrame.type = "group"
    /\ lastFrame.stores = "ok"
    /\ conns[lastFrame.conn].userId \in rooms[lastFrame.recipientId]
    /\ Cardinality(lastFrame.pubs) = 2
    /\ lastFrame.response.type = "group_message_sent"

\* C24: a frame that JSON.parse rejects, and a frame whose type is neither direct
\* nor group, is answered with one error frame; the handler writes nothing to the
\* messages collection, publishes nothing, and the connection is OPEN afterwards.
C24_BadFrameIsErrorOnly ==
    /\ [](lastFrame.type \in {"malformed", "other"}
            => /\ lastFrame.response.type = "error"
               /\ lastFrame.steps = <<"send">>
               /\ lastFrame.saved = {}
               /\ lastFrame.pubs = {})
    /\ [][(lastFrame' # lastFrame /\ lastFrame'.type \in {"malformed", "other"})
            => /\ conns[lastFrame'.conn].state = "OPEN"
               /\ conns' = conns
               /\ rooms' = rooms]_vars

\* A connection has sent a frame that does not parse, was answered with an error
\* frame and is still open.
C24_Witness ==
    /\ lastFrame.type = "malformed"
    /\ lastFrame.response = ErrorFrame("Error processing message")
    /\ conns[lastFrame.conn].state = "OPEN"

\* The step is a request of the ingress route whose service validation ran.
ValidationRan == ingressReply' # ingressReply /\ ingressReply'.gateway # ""

\* C25: while 'invalid' is cached for the (serviceId, tenantId) pair, every
\* validation answers invalid from the cache, without a call to the gateway and
\* leaving the entry as it is; the first validation after the entry has expired
\* calls the gateway.
C25_NegativeCacheShortCircuits ==
    /\ [](serviceCache = "invalid"
            => \A gateway \in GatewayOutcomes :
                  validateServiceViaGateway(serviceCache, gateway)
                      = [isValid |-> FALSE, cache |-> "invalid", ttl |-> 0,
                         gatewayCalled |-> FALSE])
    /\ [](serviceCache = ""
            => \A gateway \in GatewayOutcomes :
                  validateServiceViaGateway(serviceCache, gateway).gatewayCalled)
    /\ [][/\ (serviceCache = "invalid" /\ ValidationRan)
                => /\ ingressReply'.gateway = "cached"
                   /\ ingressReply'.status = 401
                   /\ serviceCache' = "invalid"
                   /\ stream' = stream
          /\ (serviceCache = "" /\ ValidationRan)
                => /\ ingressReply'.gateway \in GatewayOutcomes
                   /\ serviceCache' # ""]_vars

\* A request has been refused from the negative cache, the gateway not asked, and
\* the entry is still there.
C25_Witness ==
    /\ serviceCache = "invalid"
    /\ ingressReply.status = 401
    /\ ingressReply.gateway = "cached"

\* C26: a validation that misses the cache caches 'valid', for 600 s, when the
\* gateway answers 200, and 'invalid', for the strictly shorter 300 s, when the
\* gateway answers otherwise or the call fails; only in the first case is the
\* answer valid (the request gets past the 401).
C26_MissCachesGatewayAnswer ==
    /\ [](\A gateway \in GatewayOutcomes :
             LET v == validateServiceViaGateway("", gateway)
             IN  /\ v.isValid <=> gateway = "200"
                 /\ v.cache = IF gateway = "200" THEN "valid" ELSE "invalid"
                 /\ v.ttl = IF gateway = "200" THEN ValidTtl ELSE InvalidTtl)
    /\ [](InvalidTtl < ValidTtl /\ InvalidTtl > 0)
    /\ [](ingressReply.gateway \in GatewayOutcomes
             => /\ ingressReply.ttl = IF ingressReply.gateway = "200" THEN 600 ELSE 300
                /\ ingressReply.gateway # "200" => ingressReply.status = 401
                /\ ingressReply.gateway = "200" => ingressReply.status # 401)
    /\ [][(serviceCache = "" /\ ValidationRan)
             => serviceCache' = IF ingressReply'.gateway = "200" THEN "valid"
                                ELSE "invalid"]_vars

\* The gateway could not be reached on a cache miss: the request was refused and
\* 'invalid' is cached for 300 s.
C26_Witness ==
    /\ ingressReply.gateway = "error"
    /\ ingressReply.status = 401
    /\ ingressReply.ttl = 300
    /\ serviceCache = "invalid"

\* The request answered last was a group create that reached createGroupRoom
\* and named a participant the creator may not message.
GroupDenied ==
    /\ httpReply.route = "group"
    /\ httpReply.steps # <<>>
    /\ DeniedAt(httpReply.userId, httpReply.userType, httpReply.participants) # {}

\* C27: createGroupRoom checks the policy for (creator, participant) for every
\* participant before it writes any membership; a request that names a denied
\* participant is answered with a failure that carries the denial reason, and no
\* participant has been added to any room.
C27_GroupCreateAllOrNothing ==
    /\ [](httpReply.route = "group"
            => \A i, j \in 1..Len(httpReply.steps) :
                  (httpReply.steps[i] = "policy" /\ httpReply.steps[j] = "add") => i < j)
    /\ [](httpReply.route = "group" /\ httpReply.status = 200
            => Len(SelectSeq(httpReply.steps, LAMBDA st : st = "policy"))
                  = Len(httpReply.participants))
    /\ [](GroupDenied
            => /\ httpReply.status = 400
               /\ httpReply.roomId = ""
               /\ Len(httpReply.error) = 3
               /\ httpReply.error[3] = DenyMessage
               /\ \E i \in DeniedAt(httpReply.userId, httpReply.userType, httpReply.participants) :
                     httpReply.error[2] = httpReply.participants[i].id
               /\ \A i \in 1..Len(httpReply.steps) : httpReply.steps[i] # "add")
    /\ [][(httpReply' # httpReply /\ GroupDenied') => rooms' = rooms]_vars

\* A director's request named a guardian and then a student: it was refused with
\* the reason, after two policy checks, and the room has no member.
C27_Witness ==
    /\ GroupDenied
    /\ httpReply.userType = "director"
    /\ Len(httpReply.participants) = 2
    /\ httpReply.participants[1].type = "guardian"
    /\ httpReply.participants[2].type = "student"
    /\ httpReply.steps = <<"policy", "policy">>
    /\ httpReply.status = 400
    /\ \A rid \in RoomIds : rooms[rid] = {}

\* C28: a history request during which the document store fails is answered
\* with a server error, not with a success and an empty list.
C28_HistoryStoreFailureIsError ==
    (httpReply.route = "history" /\ ~httpReply.dbOk) => httpReply.status = 500

\* C29: a read that returns no record after its blocking time leaves the loop at
\* its next read, with no wait in between; a read that fails with a store error
\* delivers nothing and takes the loop to the one-second wait, from which it
\* goes to the next read. The loop waits after nothing but a failed read.
C29_BackoffOnlyAfterFailedRead ==
    [][\A w \in WorkerIds :
          /\ (ReadGroup(w, TRUE) /\ group.exists /\ ReadTarget = 0)
                => workers'[w] = [pc |-> "read", cur |-> 0]
          /\ (workers[w].pc = "read" /\ ReadGroup(w, FALSE))
                => /\ workers'[w].pc = "backoff"
                   /\ group' = group
                   /\ taskLog' = taskLog
          /\ (workers[w].pc = "backoff" /\ workers'[w] # workers[w])
                => workers'[w].pc = "read"
          /\ (workers'[w].pc = "backoff" /\ workers[w].pc # "backoff")
                => /\ workers[w].pc = "read"
                   /\ ReadGroup(w, FALSE) \/ ~group.exists]_vars

\* A loop is in the wait of a failed read although the group exists, while
\* the other loop, whose read found nothing, is at its next read.
C29_Witness ==
    \E w \in WorkerIds, v \in WorkerIds :
        /\ workers[w].pc = "backoff"
        /\ workers[v].pc = "read"
        /\ group.exists
        /\ ReadTarget = 0

\* C30: a loop that has started never ends: after a handler that threw, a
\* payload that did not decode, a failed acknowledgment, a failed read and a
\* group-create answered with BUSYGROUP the loop comes to a further read; and
\* once the group exists every record of the stream is still delivered and
\* handled, whatever went wrong before it.
C30_LoopSurvivesFailures ==
    /\ [][\A w \in WorkerIds : workers[w].pc # "off" => workers'[w].pc # "off"]_vars
    /\ \A w \in WorkerIds : (workers[w].pc # "off") ~> (workers[w].pc = "read")
    /\ \A k \in 1..MaxTasks :
          (k \in Records /\ group.exists)
              ~> (k \in Records /\ taskLog[k].deliveries = 1 /\ taskLog[k].attempts = 1)

\* The acknowledgment of a handled record failed, and a later record has since
\* been handled and acknowledged.
C30_Witness ==
    \E k \in Records, j \in Records :
        /\ k < j
        /\ taskLog[k].result = "ok"
        /\ ~taskLog[k].acked
        /\ \A w \in WorkerIds : workers[w].cur # k
        /\ taskLog[j].acked

\* The step closes an open connection.
Closes(c) == conns[c].state = "OPEN" /\ conns'[c].state = "CLOSED"

\* C31: the close of a connection leaves the coordination store as it is: the
\* three keys of every session and the members of every room are unchanged, so
\* validateSession answers after the close what it answered before it.
C31_CloseLeavesStore ==
    [][(\E c \in ConnIds : Closes(c))
          => /\ sessionKey' = sessionKey
             /\ tenantKey' = tenantKey
             /\ userSessionKey' = userSessionKey
             /\ rooms' = rooms
             /\ \A sid \in SessionIds, u \in Users :
                   validateSession(sid, u)' = validateSession(sid, u)]_vars

\* An admitted connection has been closed; the key of its session is still in
\* the store and a session still validates for its user.
C31_Witness ==
    \E c \in ConnIds :
        /\ conns[c].state = "CLOSED"
        /\ conns[c].userId # ""
        /\ sessionKey[conns[c].sessionId].kind # "none"
        /\ \E sid \in SessionIds : validateSession(sid, conns[c].userId).valid

\* C32: a session stored by POST /session/initiate names a user some bearer
\* token belongs to: a request whose x-user-id is not the user its token is
\* attested for stores no session for that user id.
C32_SessionOnlyForTokenUser ==
    \A sid \in issuedSids :
        sessionKey[sid].kind = "string"
            => \E t \in Tokens : TokenUser(t) = sessionKey[sid].userId

\* C33: a request to POST /session/initiate that is answered with an error
\* leaves no session in the store: a session validates only if the database
\* write that follows storeSession succeeded (the request was answered 200).
C33_FailedInitiateLeavesNoSession ==
    \A sid \in SessionIds, u \in Users :
        (sid \in issuedSids /\ validateSession(sid, u).valid) => wsSessions[sid].present

\* C34: the messageId of the message_sent frame of a direct frame is the id
\* field of the message published on the recipient's channel and the id the
\* message is persisted under.
C34_OneMessageId ==
    (lastFrame.type = "direct" /\ lastFrame.response.type = "message_sent")
        => /\ \A p \in lastFrame.pubs : p.msg.id = lastFrame.response.messageId
           /\ \A d \in lastFrame.saved : d.docId = lastFrame.response.messageId

\* C35: the Task handleTask is called with for a record of the ingress route
\* has the type, payload, tenantId and serviceId of the request, and as id the
\* taskId the route returned.
C35_TaskRoundTrip ==
    \A k \in Records :
        (IngressRecord(k) /\ taskLog[k].task # NoTask)
            => /\ taskLog[k].task.type = stream[k].type
               /\ JsonStringify(taskLog[k].task.payload) = stream[k].payload
               /\ taskLog[k].task.tenantId = stream[k].tenantId
               /\ taskLog[k].task.serviceId = stream[k].service
               /\ taskLog[k].task.id = stream[k].id

\* C36: every frame a handler ran for is answered with exactly one frame, a
\* message_sent, a group_message_sent or an error, also when the connection
\* closes while the handler awaits its store calls.
C36_ExactlyOneResponse ==
    lastFrame.type # "none"
        => /\ lastFrame.response.type \in {"message_sent", "group_message_sent", "error"}
           /\ Len(SelectSeq(lastFrame.steps, LAMBDA st : st = "send")) = 1
           /\ \A i \in 1..Len(lastFrame.steps) : lastFrame.steps[i] # "send threw"

\* C37: a history request answered with success returns only messages of the
\* tenant stored for a session that validates for the requesting user, addressed
\* to that user, whatever the x-tenant-id header says.
C37_HistoryOfSessionTenantOnly ==
    [][(httpReply' # httpReply /\ httpReply'.route = "history" /\ httpReply'.status = 200)
          => \E sid \in SessionIds :
                /\ validateSession(sid, httpReply'.userId).valid
                /\ \A m \in httpReply'.messages :
                      /\ m.tenantId = getTenantFromSession(sid)
                      /\ httpReply'.userId \in m.recipientIds]_vars

\* C38: a group frame publishes only when the user bound to its connection is
\* a member of the room it addresses.
C38_GroupSenderIsMember ==
    (lastFrame.type = "group" /\ lastFrame.pubs # {})
        => conns[lastFrame.conn].userId \in rooms[lastFrame.recipientId]

\* C39: a group create request that reached createGroupRoom leaves as members
\* of the new room exactly the listed participants when it succeeds, and no
\* member at all when it fails.
C39_GroupCreateAtomic ==
    [][(httpReply' # httpReply /\ httpReply'.route = "group" /\ httpReply'.steps # <<>>)
          => IF httpReply'.status = 200
             THEN rooms'[httpReply'.roomId]
                     = { httpReply'.participants[i].id : i \in 1..Len(httpReply'.participants) }
             ELSE \A rid \in RoomIds : rooms[rid] = {} => rooms'[rid] = {}]_vars

\* C40: of the calls of validateServiceViaGateway that run side by side from a
\* cache miss, at most one calls the gateway while the entry lasts, and the
\* value in the cache agrees with what every returned call answered.
C40_SingleFlight ==
    /\ Cardinality({ a \in CallerIds : validateCalls[a].pc = "gateway"
                                          \/ validateCalls[a].gateway # "" }) <= 1
    /\ \A a \in CallerIds :
          validateCalls[a].pc = "done"
              => (validateCalls[a].isValid <=> serviceCache = "valid")

====
